---- MODULE Spec2Model ----
(***************************************************************************)
(* Model of the crawl orchestration of article-monitor                     *)
(* (monitor/crawler.py): crawl_all_sync, crawl_all_articles with its two   *)
(* passes, the per-article retry loop, the per-domain throttle, the stop   *)
(* flag and the shared progress record.                                    *)
(*                                                                         *)
(* Threads: every invocation of crawl_all_sync runs in its own thread (the *)
(* scheduler's job thread, a thread started by manual_crawl) and owns one  *)
(* asyncio event loop.  The coroutines of one loop interleave only at      *)
(* suspension points (a sleep, a wait on a semaphore, the fetch), so one   *)
(* action of a worker spans the code from one suspension point to the      *)
(* next.  Blocks protected by _crawl_progress_lock / _stop_signal_lock are *)
(* atomic.  stop_crawling() is called from a request thread at any time.   *)
(***************************************************************************)
EXTENDS Integers, Sequences, FiniteSets, TLC

\* ------------------------------------------------------------------------
\* Settings (monitor/config.py, read from the environment at import).  The
\* model uses small values that keep the relations of the defaults:
\* PARSE_MAX < MAX_RETRIES, SSL_MAX < MAX_RETRIES, NETWORK_MAX = MAX_RETRIES.
\* ------------------------------------------------------------------------
CRAWL_MAX_RETRIES == 2
CRAWL_RETRY_NETWORK_MAX == 2
CRAWL_RETRY_PARSE_MAX == 1
CRAWL_RETRY_SSL_MAX == 1
CRAWL_INTERLEAVE_BY_SITE == TRUE

\* Bounds of the model
MaxClock == 3
NumArticles == 4

\* The threads that call crawl_all_sync
Invokers == {"scheduler", "manual"}

\* Rows of the articles table.  Articles 1 and 2 are on the same domain,
\* article 3 on another one, article 4 is of a platform that is not
\* allow-listed.
Articles == 1..NumArticles
Domains == {"d1", "d2"}
ALLOWED_PLATFORMS == {"juejin", "csdn"}

Site(a) == IF a = 4 THEN "eefocus" ELSE IF a = 3 THEN "csdn" ELSE "juejin"

\* _domain_from_article: the lower-cased netloc of the article's URL
domain_from_article(a) == IF a \in {1, 2} THEN "d1" ELSE "d2"

\* is_platform_allowed: an empty allow-list allows every platform
is_platform_allowed(site) ==
    IF ALLOWED_PLATFORMS = {} THEN TRUE ELSE site \in ALLOWED_PLATFORMS

\* ErrorCategory
NETWORK == "network"
PARSE == "parse"
SSL == "ssl"
PERMANENT == "permanent"
UNKNOWN == "unknown"
ErrorCategory == {NETWORK, PARSE, SSL, PERMANENT, UNKNOWN}
NoCategory == "nocat"

\* What one call of extract_article_info can do: return a count ("c1",
\* "c2"), return no count ("none"), or raise an error of some category.
CountOutcomes == {"c1", "c2"}
Outcomes == CountOutcomes \cup {"none"} \cup ErrorCategory
CountOf(o) == IF o = "c1" THEN 1 ELSE 2

\* What the browser call crawler.arun can do besides what leads to the
\* outcomes above: raise asyncio.TimeoutError, raise ConnectionError
TransportFailures == {"timeout", "connection_error"}

\* extractors.py lines 210-246 and 602-605: _crawl_with_shared catches what
\* the browser call raises and returns None, extract_with_config_full then
\* returns (None, None) and extract_article_info a read_count of None
extract_article_info(e) == IF e \in TransportFailures THEN "none" ELSE e

\* The fetch returned a count and a title that differs from the stored one,
\* and update_article_title raised (database.py lines 495-503 catch nothing:
\* sqlite3.OperationalError "database is locked")
TitleFailures == {"title_error"}

VARIABLES
    \* ---- configuration fixed at start-up
    db,                 \* get_all_articles(): sequence of article ids
    runsLeft,           \* invocations of crawl_all_sync each thread still makes
    perDomain,          \* CRAWL_CONCURRENCY_PER_DOMAIN
    minDelay,           \* CRAWL_MIN_DELAY_PER_DOMAIN
    concurrency,        \* CRAWL_CONCURRENCY
    outcomes,           \* what a fetch of this deployment's sites can do
    \* ---- module-level state of crawler.py
    crawl_progress,     \* _crawl_progress
    stop_signal,        \* _stop_signal
    domain_semaphores,  \* _domain_semaphores: domain -> semaphore (0: no entry)
    semaphores,         \* the asyncio.Semaphore objects created so far: permits
    domain_last_request_time, \* _domain_last_request_time (-1: no entry)
    now,                \* time.monotonic()
    \* ---- the database
    status,             \* articles.last_status / last_error
    latest_count,       \* latest row of read_counts per article (0: none)
    readings,           \* number of rows add_read_count inserted per article
    \* ---- per invocation of crawl_all_sync
    batch,              \* position and locals of crawl_all_articles
    worker,             \* the task of each article in the current pass
    \* ---- observation (history) variables
    obs,                \* per invocation and article: what its worker did
    fetch_end,          \* per domain: when its latest fetch ended (-1: none yet)
    stopped,            \* invocations during whose batch stop_crawling() ran
    \* ---- the error classifier
    parts,              \* the fragments the error's message is made of
    classified,         \* what _crawl_with_retry derived from the error
    \* ---- the retry delay
    delay_cfg,          \* CRAWL_RETRY_DELAY, _BACKOFF, _MAX_DELAY, _SSL_DELAY, _JITTER
    delays,             \* the delays computed for attempts 1, 2, ... of one article
    \* ---- the browser pool
    pool_cfg,           \* BrowserPool._max_size, _min_size; the permits of retry_semaphore
    browser_pool,       \* BrowserPool: _pool, _in_use, _pool_lock; the instances made
    task,               \* the retry tasks of pass 2 as users of the pool
    \* ---- the interleaving of the articles
    interleaving,       \* a call of _interleave_articles_by_site: argument and result
    \* ---- TaskManager (task_manager.py)
    task_manager        \* _tasks, _task_queue, _current_running, the worker loop

vars == <<db, runsLeft, perDomain, minDelay, concurrency, outcomes, crawl_progress, stop_signal,
          domain_semaphores, semaphores, domain_last_request_time, now,
          status, latest_count, readings, batch, worker, obs, fetch_end,
          stopped, parts, classified, delay_cfg, delays, pool_cfg, browser_pool, task,
          interleaving, task_manager>>

config == <<db, runsLeft, perDomain, minDelay, concurrency, outcomes>>
database == <<status, latest_count, readings>>
throttle == <<domain_semaphores, semaphores, domain_last_request_time>>
backoff == <<delay_cfg, delays>>
browsers == <<pool_cfg, browser_pool, task>>
units == <<interleaving, task_manager>>
classifier == <<parts, classified, backoff, browsers, units>>

Min(x, y) == IF x <= y THEN x ELSE y

Range(s) == {s[k] : k \in 1..Len(s)}

\* index of article a in the list s (0-based, as enumerate gives it)
IndexOf(s, a) == (CHOOSE k \in 1..Len(s) : s[k] = a) - 1

\* ------------------------------------------------------------------------
\* Pure functions
\* ------------------------------------------------------------------------

\* _get_max_retries_for_category
get_max_retries_for_category(c) ==
    IF c = NETWORK \/ c = UNKNOWN THEN CRAWL_RETRY_NETWORK_MAX
    ELSE IF c = PARSE THEN CRAWL_RETRY_PARSE_MAX
    ELSE IF c = SSL THEN CRAWL_RETRY_SSL_MAX
    ELSE 0

\* _is_retryable_error
is_retryable_error(c) == c # PERMANENT

\* ------------------------------------------------------------------------
\* _get_error_category, lines 212-250.  A message is a sequence of
\* characters (strings of length one); the messages classified are made of
\* up to MaxFragments of the fragments below.
\* ------------------------------------------------------------------------
MaxFragments == 3

\* pieces of error messages, in the letter case they are raised with
Fragments ==
    <<<<"4", "0", "4">>,
      <<"N", "o", "t", " ", "F", "o", "u", "n", "d">>,
      <<"F", "O", "R", "B", "I", "D", "D", "E", "N">>,
      <<"S", "S", "L">>,
      <<"C", "e", "r", "t", "i", "f", "i", "c", "a", "t", "e">>,
      <<"T", "i", "m", "e", "o", "u", "t">>,
      <<"5", "0", "3">>,
      <<"c", "o", "n", "n", "e", "c", "t", "i", "o", "n", " ", "r", "e", "s", "e", "t">>,
      <<"p", "a", "r", "s", "e">>,
      <<"E", "l", "e", "m", "e", "n", "t", " ">>,
      <<"n", "o", " ", "s", "u", "c", "h", " ", "e", "l", "e", "m", "e", "n", "t">>,
      <<" ">>,
      <<"o", "o", "p", "s">>,
      <<"4", "0">>,
      <<"4">>>>

\* the class of the keyword a fragment spells out, if it spells one
FragmentClass ==
    <<PERMANENT, PERMANENT, PERMANENT, SSL, SSL, NETWORK, NETWORK, NETWORK, PARSE, NoCategory, PARSE, NoCategory, NoCategory, NoCategory, NoCategory>>

\* str.lower() on the letters
LowerCase ==
    [A |-> "a", B |-> "b", C |-> "c", D |-> "d", E |-> "e", F |-> "f",
     G |-> "g", H |-> "h", I |-> "i", J |-> "j", K |-> "k", L |-> "l",
     M |-> "m", N |-> "n", O |-> "o", P |-> "p", Q |-> "q", R |-> "r",
     S |-> "s", T |-> "t", U |-> "u", V |-> "v", W |-> "w", X |-> "x",
     Y |-> "y", Z |-> "z"]

\* a str.lower() that leaves the message as it is
LowerKeepsCase(str) == str

\* str(error).lower()
Lower(str) == [k \in 1..Len(str) |-> IF str[k] \in DOMAIN LowerCase
                                      THEN LowerCase[str[k]] ELSE str[k]]

\* keyword in error_str
Contains(str, keyword) ==
    \E k \in 1..(Len(str) - Len(keyword) + 1) :
        SubSeq(str, k, k + Len(keyword) - 1) = keyword

\* any(keyword in error_str for keyword in keywords)
AnyIn(str, keywords) == \E keyword \in keywords : Contains(str, keyword)

\* line 224
permanent_keywords ==
    {<<"4", "0", "4">>,
     <<"n", "o", "t", " ", "f", "o", "u", "n", "d">>,
     <<"4", "0", "3">>,
     <<"f", "o", "r", "b", "i", "d", "d", "e", "n">>,
     <<"4", "0", "1">>,
     <<"u", "n", "a", "u", "t", "h", "o", "r", "i", "z", "e", "d">>}

\* line 229
ssl_keywords ==
    {<<"s", "s", "l">>,
     <<"c", "e", "r", "t", "i", "f", "i", "c", "a", "t", "e">>,
     <<"h", "a", "n", "d", "s", "h", "a", "k", "e">>,
     <<"t", "l", "s">>,
     <<"c", "e", "r", "t">>}

\* lines 234-240
network_keywords ==
    {<<"t", "i", "m", "e", "o", "u", "t">>,
     <<"c", "o", "n", "n", "e", "c", "t", "i", "o", "n">>,
     <<"n", "e", "t", "w", "o", "r", "k">>,
     <<"t", "e", "m", "p", "o", "r", "a", "r", "y">>,
     <<"5", "0", "3">>,
     <<"5", "0", "2">>,
     <<"5", "0", "4">>,
     <<"4", "2", "9">>,
     <<"e", "c", "o", "n", "n", "r", "e", "f", "u", "s", "e", "d">>,
     <<"e", "c", "o", "n", "n", "r", "e", "s", "e", "t">>,
     <<"e", "t", "i", "m", "e", "d", "o", "u", "t">>,
     <<"c", "o", "n", "n", "e", "c", "t", "i", "o", "n", " ", "r", "e", "f", "u", "s", "e", "d">>,
     <<"c", "o", "n", "n", "e", "c", "t", "i", "o", "n", " ", "r", "e", "s", "e", "t">>,
     <<"c", "o", "n", "n", "e", "c", "t", "i", "o", "n", " ", "a", "b", "o", "r", "t", "e", "d">>,
     <<"n", "a", "m", "e", " ", "r", "e", "s", "o", "l", "u", "t", "i", "o", "n">>,
     <<"d", "n", "s">>,
     <<"n", "o", " ", "r", "o", "u", "t", "e", " ", "t", "o", " ", "h", "o", "s", "t">>}

\* line 245
parse_keywords ==
    {<<"e", "x", "t", "r", "a", "c", "t">>,
     <<"p", "a", "r", "s", "e">>,
     <<"s", "e", "l", "e", "c", "t", "o", "r">>,
     <<"e", "l", "e", "m", "e", "n", "t", " ", "n", "o", "t", " ", "f", "o", "u", "n", "d">>,
     <<"n", "o", " ", "s", "u", "c", "h", " ", "e", "l", "e", "m", "e", "n", "t">>}

\* a classifier that looks for the Network keywords before the Ssl ones
get_error_category_network_first(error) ==
    LET error_str == Lower(error)
    IN IF AnyIn(error_str, permanent_keywords) THEN PERMANENT
       ELSE IF AnyIn(error_str, network_keywords) THEN NETWORK
       ELSE IF AnyIn(error_str, ssl_keywords) THEN SSL
       ELSE IF AnyIn(error_str, parse_keywords) THEN PARSE
       ELSE UNKNOWN

\* _get_error_category
get_error_category(error) ==
    LET error_str == Lower(error)
    IN IF AnyIn(error_str, permanent_keywords) THEN PERMANENT
       ELSE IF AnyIn(error_str, ssl_keywords) THEN SSL
       ELSE IF AnyIn(error_str, network_keywords) THEN NETWORK
       ELSE IF AnyIn(error_str, parse_keywords) THEN PARSE
       ELSE UNKNOWN

\* str(error): the fragments one after the other
RECURSIVE Message(_)
Message(ps) == IF ps = <<>> THEN <<>> ELSE Fragments[Head(ps)] \o Message(Tail(ps))

\* no error classified yet
NoClassified == [category |-> NoCategory, max_retries |-> 0, is_retryable |-> FALSE]

\* ------------------------------------------------------------------------
\* _calculate_retry_delay, lines 302-330.  The floats of the configuration
\* and the delays are rationals [n, d] with d > 0, computed exactly.
\* ------------------------------------------------------------------------
MaxAttempt == 4

Rat(n, d) == [n |-> n, d |-> d]
RLeq(x, y) == x.n * y.d <= y.n * x.d
REq(x, y) == x.n * y.d = y.n * x.d
RMul(x, y) == Rat(x.n * y.n, x.d * y.d)
RAdd(x, y) == Rat(x.n * y.d + y.n * x.d, x.d * y.d)
RMin(x, y) == IF RLeq(x, y) THEN x ELSE y
RMax(x, y) == IF RLeq(x, y) THEN y ELSE x

\* x ** k for an int k >= 0
RECURSIVE RPow(_, _)
RPow(x, k) == IF k = 0 THEN Rat(1, 1) ELSE RMul(x, RPow(x, k - 1))

\* config.py lines 24-27, 33: the defaults
DefaultDelayCfg ==
    [delay |-> Rat(2, 1), backoff |-> Rat(3, 2), max_delay |-> Rat(30, 1),
     ssl_delay |-> Rat(5, 1), jitter |-> TRUE, category |-> NETWORK]

\* random.uniform(-0.1 * delay, 0.1 * delay), in tenths of its range
Jitters == {-1, 0, 1}

\* lines 313-321 without the upper limit of line 324
base_delay_uncapped(cfg, error_category, attempt) ==
    IF error_category = SSL THEN cfg.ssl_delay
    ELSE IF error_category = PARSE THEN RMul(cfg.delay, Rat(attempt, 1))
    ELSE RMul(cfg.delay, RPow(cfg.backoff, attempt - 1))

\* a delay that is not held under CRAWL_RETRY_MAX_DELAY
capped_delay_unlimited(cfg, error_category, attempt) ==
    base_delay_uncapped(cfg, error_category, attempt)

\* lines 313-324: delay = min(base_delay, CRAWL_RETRY_MAX_DELAY)
capped_delay(cfg, error_category, attempt) ==
    RMin(base_delay_uncapped(cfg, error_category, attempt), cfg.max_delay)

\* _calculate_retry_delay; j is the draw of the jitter (lines 327-329)
calculate_retry_delay(cfg, error_category, attempt, j) ==
    LET delay == capped_delay(cfg, error_category, attempt)
    IN IF cfg.jitter
       THEN RMax(Rat(1, 10), RAdd(delay, RMul(Rat(j, 10), delay)))
       ELSE delay

\* ------------------------------------------------------------------------
\* BrowserPool (browser_pool.py) as the retry tasks of pass 2 use it
\* (_do_retry_with_pool, crawler.py lines 720-752; create_shared_crawler,
\* extractors.py lines 132-154).  A browser instance is a positive number, 0
\* stands for None.
\* ------------------------------------------------------------------------
NumTasks == 3
Tasks == 1..NumTasks

\* browser_pool.py lines 37-38, config.py line 17
DefaultPoolCfg == [max_size |-> 5, min_size |-> 2, permits |-> 5]

\* lines 34-36: _pool_lock (owner 0: not locked; waiters in the order of
\* their calls), _pool, _in_use; created counts the instances made, closed
\* holds those whose __aexit__ has run, stray tells that release() was
\* called with an instance that was not in use
EmptyPool == [pool |-> <<>>, in_use |-> {}, owner |-> 0, waiters |-> <<>>,
              created |-> 0, closed |-> {}, stray |-> FALSE]

\* a retry task: where it is, the instance it uses, use_pool, and whether
\* its first acquire() returned None
NewTask == [pc |-> "start", crawler |-> 0, use_pool |-> FALSE, fell_back |-> FALSE]

\* asyncio.Lock.release()
Unlock(b) == [b EXCEPT !.owner = 0]

\* a task goes on with the instance it was given
UseCrawler(t, w, c, use_pool) ==
    [t EXCEPT ![w].pc = "crawl", ![w].crawler = c, ![w].use_pool = use_pool]

\* acquire(), lines 49-69, of task w that holds the lock: an instance of the
\* pool, or the creation of one, or None.  The result is the pool and the
\* tasks when the task next suspends, or when acquire() has returned None
\* (none), which the task goes on with at once.
AcquireBody(b, t, w, creating) ==
    IF b.pool # <<>>
    THEN [b |-> Unlock([b EXCEPT !.pool = Tail(@), !.in_use = @ \cup {Head(b.pool)}]),
          t |-> UseCrawler(t, w, Head(b.pool), ~t[w].fell_back), none |-> FALSE]
    ELSE IF Cardinality(b.in_use) < pool_cfg.max_size
    THEN [b |-> b, t |-> [t EXCEPT ![w].pc = creating], none |-> FALSE]
    ELSE [b |-> Unlock(b), t |-> t, none |-> TRUE]

\* _cleanup_idle(), lines 119-147, when the interval has passed: the
\* instances of the pool beyond _min_size are taken out, oldest first, and
\* closed
CleanupIdle(b) ==
    IF Len(b.pool) > pool_cfg.min_size
    THEN LET remove_count == Len(b.pool) - pool_cfg.min_size
         IN [b EXCEPT !.pool = SubSeq(@, remove_count + 1, Len(@)),
                      !.closed = @ \cup {b.pool[k] : k \in 1..remove_count}]
    ELSE b

\* async with self._pool_lock of a task that is not made to wait
LockFree(b) == b.owner = 0 /\ b.waiters = <<>>
Lock(b, w) == [b EXCEPT !.owner = w]
Enqueue(b, w) == [b EXCEPT !.waiters = Append(@, w)]

\* create_shared_crawler() after acquire() returned None a second time:
\* lines 146-154 of extractors.py, an instance of its own is started
Standalone(b, t, w) == [b |-> b, t |-> [t EXCEPT ![w].pc = "standalone"]]

\* create_shared_crawler() once its acquire() is over with r
SecondAcquired(r, w) ==
    IF r.none THEN Standalone(r.b, r.t, w) ELSE [b |-> r.b, t |-> r.t]

\* the acquire() of create_shared_crawler(), extractors.py line 141
SecondAcquire(b, t, w, due) ==
    IF LockFree(b)
    THEN SecondAcquired(AcquireBody(IF due THEN CleanupIdle(Lock(b, w)) ELSE Lock(b, w),
                                    t, w, "creating2"), w)
    ELSE [b |-> Enqueue(b, w), t |-> [t EXCEPT ![w].pc = "wait2"]]

\* crawler.py lines 723-726: acquire() returned None, create_shared_crawler()
\* is called; nothing suspends the task in between
FallBack(b, t, w) ==
    SecondAcquire(b, [t EXCEPT ![w].fell_back = TRUE], w, FALSE)

\* _do_retry_with_pool once its acquire() is over with r
FirstAcquired(r, w) ==
    IF r.none THEN FallBack(r.b, r.t, w) ELSE [b |-> r.b, t |-> r.t]

\* the acquire() of _do_retry_with_pool, crawler.py line 723
FirstAcquire(b, t, w, due) ==
    IF LockFree(b)
    THEN FirstAcquired(AcquireBody(IF due THEN CleanupIdle(Lock(b, w)) ELSE Lock(b, w),
                                   t, w, "creating1"), w)
    ELSE [b |-> Enqueue(b, w), t |-> [t EXCEPT ![w].pc = "wait1"]]

\* a release() that does not look whether the instance is in use
ReleaseBodyUnchecked(b, c, valid) ==
    IF valid
    THEN [b EXCEPT !.in_use = @ \ {c}, !.pool = Append(@, c)]
    ELSE [b EXCEPT !.in_use = @ \ {c}, !.closed = @ \cup {c}]

\* release(), lines 73-85, of a task that holds the lock
ReleaseBody(b, c, valid) ==
    IF c \in b.in_use
    THEN IF valid
         THEN [b EXCEPT !.in_use = @ \ {c}, !.pool = Append(@, c)]
         ELSE [b EXCEPT !.in_use = @ \ {c}, !.closed = @ \cup {c}]
    ELSE b

\* the keys of groups in insertion order: domains by first appearance
RECURSIVE GroupKeys(_, _)
GroupKeys(articles, keys) ==
    IF articles = <<>> THEN keys
    ELSE LET k == domain_from_article(Head(articles))
         IN GroupKeys(Tail(articles),
                      IF k \in Range(keys) THEN keys ELSE Append(keys, k))

RECURSIVE InterleaveLoop(_, _, _, _)
InterleaveLoop(groups, keys, idx, interleaved) ==
    IF \A k \in Range(keys) : groups[k] = <<>> THEN interleaved
    ELSE LET k == keys[(idx % Len(keys)) + 1]
         IN IF groups[k] # <<>>
            THEN InterleaveLoop([groups EXCEPT ![k] = Tail(groups[k])], keys,
                                idx + 1, Append(interleaved, Head(groups[k])))
            ELSE InterleaveLoop(groups, keys, idx + 1, interleaved)

\* an order that keeps the articles of a domain together
interleave_grouped(articles) ==
    IF articles = <<>> THEN articles
    ELSE LET keys == GroupKeys(articles, <<>>)
         IN SelectSeq(articles, LAMBDA a : domain_from_article(a) = keys[1])
            \o SelectSeq(articles, LAMBDA a : domain_from_article(a) # keys[1])

\* _interleave_articles_by_site
interleave_articles_by_site(articles) ==
    IF articles = <<>> THEN articles
    ELSE LET keys == GroupKeys(articles, <<>>)
             groups == [k \in Range(keys) |->
                          SelectSeq(articles, LAMBDA a : domain_from_article(a) = k)]
         IN InterleaveLoop(groups, keys, 0, <<>>)

\* a crawl_all_articles that keeps every article
FilterNothing(articles) == articles

\* crawl_all_articles, lines 507-526: keep the allow-listed platforms
FilterAllowed(articles) ==
    SelectSeq(articles, LAMBDA a : is_platform_allowed(Site(a)))

\* ------------------------------------------------------------------------
\* Initial state: the module has been imported, nothing runs.
\* ------------------------------------------------------------------------
IdleWorker == [pc |-> "none", attempt |-> 0, cat |-> NoCategory, dsem |-> 0, wake |-> 0]

\* articles.last_status, last_error of a row never crawled.  err names the
\* message stored: "str_e" (the error's text), "str_e_100" (its first 100
\* characters), "no_count", "retry_failed" (the two literals of the code);
\* cat is the category of the error whose text is stored.
NoStatus == [st |-> "NEW", err |-> "none", cat |-> NoCategory]

IdleBatch == [pc |-> "idle", articles |-> <<>>, pre |-> [a \in Articles |-> 0],
              last_error |-> [a \in Articles |-> NoStatus],
              semaphore |-> 0, retry_semaphore |-> 0, failed_articles |-> <<>>]

\* nf1, nf2: fetch attempts started in pass 1, in pass 2; permAt: number of
\* fetches made when a fetch first raised a Permanent error (0: never);
\* cats2: categories of the failed attempts of pass 2; preempted: the worker
\* returned at a check of the stop flag; counted: progress.failed was
\* incremented for the article; marked: the batch wrote ERROR for it;
\* afterStop: a fetch started after stop_crawling() ran during the batch;
\* gap: time from the latest fetch end on the domain to the start of the
\* worker's latest fetch (-1: no earlier fetch had ended)
\* res1, res2: what the worker of pass 1, of pass 2 returned ("none": it has
\* not returned; "ok": True; "fail": False); got: the count the worker's
\* latest fetch returned (0: none); cat1: the category of the failure
\* of the attempt of pass 1; cat2: the category of the failure of the
\* latest attempt of pass 2; wrote: the status the workers of this batch
\* wrote last for the article ("none": they wrote none); raised: an exception
\* escaped the crawl of the worker; waited: the worker has run
\* _wait_domain_rate_limit since its latest fetch ended; tcat: the category
\* _crawl_with_retry gave the latest fetch that failed at the transport level;
\* tres: how the latest attempt ended whose fetch returned a count and whose
\* title update raised; saved: the calls of add_read_count the workers of
\* this batch made for the article
NoObs == [nf1 |-> 0, nf2 |-> 0, permAt |-> 0, cats2 |-> {}, preempted |-> FALSE,
          counted |-> FALSE, marked |-> FALSE, afterStop |-> FALSE, gap |-> -1,
          res1 |-> "none", res2 |-> "none", got |-> 0,
          cat1 |-> NoCategory, cat2 |-> NoCategory, wrote |-> "none",
          raised |-> FALSE, waited |-> FALSE, tcat |-> NoCategory,
          tres |-> "none", saved |-> 0]

\* reset_crawl_progress, and the initial value of _crawl_progress
FreshProgress == [is_running |-> FALSE, total |-> 0, current |-> 0, success |-> 0,
                  failed |-> 0, retried |-> 0, end_time |-> FALSE]

\* The deployments the model is explored for.  OneThread: only the
\* scheduler's thread calls crawl_all_sync; TwoThreads: a manual trigger too.
OneThread == [i \in Invokers |-> IF i = "scheduler" THEN 1 ELSE 0]
TwoThreads == [i \in Invokers |-> 1]

\* one allowed and one disallowed article, every outcome of a fetch
ScenarioSingle ==
    [db |-> <<1, 4>>, runs |-> OneThread, k |-> 1, d |-> 0, n |-> 2, o |-> Outcomes]
\* two articles of one domain, with and without the per-domain cap, with a
\* global concurrency of 1 and of 2
ScenarioPair(k, n) ==
    [db |-> <<1, 2, 4>>, runs |-> OneThread, k |-> k, d |-> 0, n |-> n,
     o |-> {"c2", NETWORK}]
\* two threads call crawl_all_sync
ScenarioOverlap ==
    [db |-> <<1, 4>>, runs |-> TwoThreads, k |-> 1, d |-> 0, n |-> 1,
     o |-> {"c2", NETWORK}]
\* two threads call crawl_all_sync, two articles of one domain, every fetch
\* returns a count
ScenarioOverlapPair ==
    [db |-> <<1, 2>>, runs |-> TwoThreads, k |-> 1, d |-> 0, n |-> 2, o |-> {"c2"}]
\* two articles of one domain with a minimum spacing of 2
ScenarioSpacing ==
    [db |-> <<1, 2>>, runs |-> OneThread, k |-> 1, d |-> 2, n |-> 2,
     o |-> {"c2", NETWORK}]

\* two articles of one domain; a fetch returns a count or fails with a
\* Network error, and exceptions are raised in the workers and in
\* crawl_all_articles
ScenarioRaise ==
    [db |-> <<1, 2, 4>>, runs |-> OneThread, k |-> 1, d |-> 0, n |-> 2,
     o |-> {"c2", NETWORK, "raise"}]

\* one allowed article; the browser call returns a page with a count, times
\* out or loses its connection, or the title update raises
ScenarioTransport ==
    [db |-> <<1, 4>>, runs |-> OneThread, k |-> 1, d |-> 0, n |-> 2,
     o |-> {"c2", "timeout", "connection_error", "title_error"}]

Scenarios ==
    {ScenarioSingle, ScenarioPair(1, 2), ScenarioPair(0, 2), ScenarioPair(0, 1),
     ScenarioOverlap, ScenarioOverlapPair, ScenarioSpacing, ScenarioRaise,
     ScenarioTransport}

InitBatch(S) ==
    /\ \E s \in S :
        /\ db = s.db
        /\ runsLeft = s.runs
        /\ perDomain = s.k
        /\ minDelay = s.d
        /\ concurrency = s.n
        /\ outcomes = s.o
    /\ crawl_progress = FreshProgress
    /\ stop_signal = FALSE
    /\ domain_semaphores = [d \in Domains |-> 0]
    /\ semaphores = <<>>
    /\ domain_last_request_time = [d \in Domains |-> -1]
    /\ now = minDelay
    /\ status = [a \in Articles |-> NoStatus]
    /\ latest_count = [a \in Articles |-> IF a = 1 THEN 1 ELSE 0]
    /\ readings = [a \in Articles |-> 0]
    /\ batch = [i \in Invokers |-> IdleBatch]
    /\ worker = [i \in Invokers |-> [a \in Articles |-> IdleWorker]]
    /\ obs = [i \in Invokers |-> [a \in Articles |-> NoObs]]
    /\ fetch_end = [d \in Domains |-> -1]
    /\ stopped = {}
    /\ parts = <<>>
    /\ classified = NoClassified
    /\ delays = <<>>
    /\ browser_pool = EmptyPool

\* no call of _interleave_articles_by_site is looked at
NoInterleaving == [articles |-> <<>>, interleaved |-> <<>>, returned |-> FALSE]

\* ------------------------------------------------------------------------
\* TaskManager (task_manager.py).  A task is a number; its status is one of
\* TaskStatus, or "none" before it is submitted.
\* ------------------------------------------------------------------------
MaxSubmitted == 3
TaskIds == 1..MaxSubmitted

\* line 42
max_concurrent_tasks == 3

\* __init__, lines 40-46: _tasks, _task_queue, _current_running, and the
\* worker loop at its first get().  putting: the tasks whose add_to_queue has
\* not run yet; task_id: the task the loop works on; invoked: the tasks whose
\* function was called; cancelled_pending: the tasks cancelled while pending
NewTaskManager ==
    [tasks |-> [t \in TaskIds |-> "none"], task_queue |-> <<>>, putting |-> {},
     current_running |-> 0, pc |-> "get", task_id |-> 0,
     invoked |-> {}, cancelled_pending |-> {}]

InitState(S) ==
    InitBatch(S) /\ interleaving = NoInterleaving /\ task_manager = NewTaskManager

\* the retry tasks before any has started
NewTasks == [w \in Tasks |-> NewTask]

InitWith(S) ==
    InitState(S) /\ delay_cfg = DefaultDelayCfg /\ pool_cfg = DefaultPoolCfg /\ task = NewTasks

Init == InitWith(Scenarios)

\* an invocation whose crawl_all_articles is between its first and its last
\* statement
InBatch(i) == batch[i].pc \in {"started", "loaded", "pass1", "pass2", "raised"}

\* an invocation whose workers exist
Running(i) == batch[i].pc \in {"pass1", "pass2"}

\* an invocation that has reset the stop flag (line 499) and has not
\* finalized: a stop request made now is meant for its batch
AfterReset(i) == batch[i].pc \in {"loaded", "pass1", "pass2"}

\* ------------------------------------------------------------------------
\* stop_crawling(): POST /api/crawl/stop, at any time
\* ------------------------------------------------------------------------
stop_crawling ==
    /\ stop_signal' = TRUE
    /\ stopped' = stopped \cup {i \in Invokers : AfterReset(i)}
    /\ UNCHANGED <<config, classifier, crawl_progress, throttle, now, database, batch, worker, obs, fetch_end>>

\* ------------------------------------------------------------------------
\* crawl_all_sync(), lines 789-794: the guard
\* ------------------------------------------------------------------------
crawl_all_sync(i) ==
    /\ batch[i].pc = "idle"
    /\ runsLeft[i] > 0
    /\ runsLeft' = [runsLeft EXCEPT ![i] = @ - 1]
    /\ IF crawl_progress.is_running
       THEN UNCHANGED batch
       ELSE batch' = [batch EXCEPT ![i].pc = "started"]
    /\ UNCHANGED <<db, perDomain, minDelay, concurrency, outcomes, classifier,
                   crawl_progress, stop_signal, throttle, now,
                   database, worker, obs, stopped, fetch_end>>

\* a start of crawl_all_articles that leaves the stop flag as it finds it
stop_signal_kept(flag) == flag

\* lines 497-499: with _stop_signal_lock: _stop_signal = False
stop_signal_at_start(flag) == FALSE

\* crawl_all_articles, lines 498-535: clear the stop flag, load and filter
\* the articles, preload their latest counts
crawl_all_articles_load(i) ==
    /\ batch[i].pc = "started"
    /\ stop_signal' = stop_signal_at_start(stop_signal)
    /\ stopped' = stopped \ {i}
    /\ LET filtered == FilterAllowed(db)
       IN IF filtered = <<>>
          THEN /\ crawl_progress' = FreshProgress
               /\ batch' = [batch EXCEPT ![i] = IdleBatch]
          ELSE /\ batch' = [batch EXCEPT ![i].pc = "loaded",
                                         ![i].articles = filtered,
                                         ![i].pre = [a \in Articles |->
                                                       IF a \in Range(filtered)
                                                       THEN latest_count[a] ELSE 0],
                                         ![i].last_error = [a \in Articles |->
                                                       IF a \in Range(filtered)
                                                       THEN status[a] ELSE NoStatus]]
               /\ UNCHANGED crawl_progress
    /\ obs' = [obs EXCEPT ![i] = [a \in Articles |-> NoObs]]
    /\ UNCHANGED <<config, classifier, throttle, now, database, worker, fetch_end>>

\* a global semaphore with one permit too many
NewSemaphoreOneMore == concurrency + 1

\* line 567: asyncio.Semaphore(CRAWL_CONCURRENCY)
NewSemaphore == concurrency

\* line 698: asyncio.Semaphore(CRAWL_CONCURRENCY)
NewRetrySemaphore == concurrency

\* crawl_all_articles, lines 537-583 and 642: interleave, reset the
\* per-domain tables, initialise the progress, create the semaphore and the
\* tasks of pass 1
crawl_all_articles_init(i) ==
    /\ batch[i].pc = "loaded"
    /\ LET articles == IF CRAWL_INTERLEAVE_BY_SITE
                       THEN interleave_articles_by_site(batch[i].articles)
                       ELSE batch[i].articles
       IN /\ batch' = [batch EXCEPT ![i].pc = "pass1",
                                    ![i].articles = articles,
                                    ![i].semaphore = NewSemaphore,
                                    ![i].failed_articles = <<>>]
          /\ crawl_progress' = [is_running |-> TRUE, total |-> Len(articles),
                                current |-> 0, success |-> 0, failed |-> 0,
                                retried |-> 0, end_time |-> FALSE]
          /\ worker' = [worker EXCEPT ![i] = [a \in Articles |->
                          IF a \in Range(articles)
                          THEN [IdleWorker EXCEPT !.pc = "p1_start"]
                          ELSE IdleWorker]]
    /\ domain_semaphores' = [d \in Domains |-> 0]
    /\ domain_last_request_time' = [d \in Domains |-> -1]
    /\ UNCHANGED <<config, classifier, stop_signal, semaphores, now, database, obs, stopped, fetch_end>>

\* ------------------------------------------------------------------------
\* The per-domain throttle
\* ------------------------------------------------------------------------

\* _get_domain_semaphore: the semaphore of the domain, created on first use;
\* None (0) when CRAWL_CONCURRENCY_PER_DOMAIN <= 0
get_domain_semaphore(dom) ==
    IF perDomain <= 0
    THEN [id |-> 0, table |-> domain_semaphores, sems |-> semaphores]
    ELSE IF domain_semaphores[dom] = 0
    THEN [id |-> Len(semaphores) + 1,
          table |-> [domain_semaphores EXCEPT ![dom] = Len(semaphores) + 1],
          sems |-> Append(semaphores, perDomain)]
    ELSE [id |-> domain_semaphores[dom], table |-> domain_semaphores,
          sems |-> semaphores]

\* _wait_domain_rate_limit: the time to sleep; a domain without an entry
\* counts as last requested at 0
wait_domain_rate_limit(dom) ==
    IF minDelay <= 0 THEN 0
    ELSE LET last == IF domain_last_request_time[dom] = -1 THEN 0
                     ELSE domain_last_request_time[dom]
         IN last + minDelay - now

\* _record_domain_request_done
record_domain_request_done(dom) ==
    IF minDelay <= 0 THEN domain_last_request_time
    ELSE [domain_last_request_time EXCEPT ![dom] = now]

Available(sems, id) == IF id = 0 THEN TRUE ELSE sems[id] > 0
Acquire(sems, id) == IF id = 0 THEN sems ELSE [sems EXCEPT ![id] = @ - 1]
\* a permit that is not given back
ReleaseKept(sems, id) == sems
Release(sems, id) == IF id = 0 THEN sems ELSE [sems EXCEPT ![id] = @ + 1]

\* ------------------------------------------------------------------------
\* _crawl_with_retry, lines 399-490: what the loop does with the outcome o
\* of attempt number attempt (0-based).  res: "ok" (return True), "fail"
\* (return False), "retry" (continue with the next iteration); err: the
\* error message written with status ERROR ("keep": nothing is written).
\* ------------------------------------------------------------------------
crawl_with_retry_outcome(max_retries, mark_error_on_fail, attempt, o) ==
    IF o \in CountOutcomes
    THEN [res |-> "ok", cat |-> NoCategory, err |-> "keep"]
    ELSE LET c == IF o = "none" THEN PARSE ELSE o
             effective_max_retries == Min(max_retries, get_max_retries_for_category(c))
             \* lines 406 and 463
             continue == IF o = "none" THEN attempt <= effective_max_retries
                         ELSE is_retryable_error(c) /\ attempt <= effective_max_retries
         IN IF o # "none" /\ c = PERMANENT
            THEN [res |-> "fail", cat |-> c,
                  err |-> IF mark_error_on_fail THEN "str_e_100" ELSE "keep"]
            ELSE IF continue
            THEN \* the next iteration of range(max_retries + 1), or the code
                 \* after the loop (lines 485-490)
                 IF attempt + 1 <= max_retries
                 THEN [res |-> "retry", cat |-> c, err |-> "keep"]
                 ELSE [res |-> "fail", cat |-> c,
                       err |-> IF ~mark_error_on_fail THEN "keep"
                               ELSE IF o = "none" THEN "no_count" ELSE "str_e"]
            ELSE [res |-> "fail", cat |-> c,
                  err |-> IF ~mark_error_on_fail THEN "keep"
                          ELSE IF o = "none" THEN "no_count"
                          ELSE IF ~is_retryable_error(c) \/ attempt >= effective_max_retries
                          THEN "str_e" ELSE "keep"]

\* lines 390-397 and 443-445: what the attempt makes of the browser call's e.
\* update_article_title is called inside the try, before the count is looked
\* at; what it raises is classified by the handler, and its message holds no
\* keyword of _get_error_category
attempt_outcome(e) ==
    IF e \in TitleFailures THEN UNKNOWN ELSE extract_article_info(e)

\* the database after an attempt with outcome o of article a in batch i:
\* lines 417-435 for a count, update_article_status(ERROR, ...) for a failure
StatusAfter(a, r) ==
    IF r.res = "ok"
    THEN [status EXCEPT ![a] = [st |-> "OK", err |-> "none", cat |-> NoCategory]]
    ELSE IF r.err # "keep"
    THEN [status EXCEPT ![a] = [st |-> "ERROR", err |-> r.err,
                                cat |-> IF r.err = "no_count" THEN NoCategory ELSE r.cat]]
    ELSE status

\* a comparison that never finds the count unchanged
NeverUnchanged(i, a, o) == FALSE

\* a save of every count fetched, changed or not
ReadingsAfterAlways(i, a, o) ==
    IF o \in CountOutcomes THEN [readings EXCEPT ![a] = @ + 1] ELSE readings

\* lines 419-432: the count compared is the preloaded one, or the latest in
\* the database when none was preloaded
Unchanged(i, a, o) ==
    LET latest == IF batch[i].pre[a] # 0 THEN batch[i].pre[a] ELSE latest_count[a]
    IN latest # 0 /\ latest = CountOf(o)

LatestAfter(i, a, o) ==
    IF o \in CountOutcomes /\ ~Unchanged(i, a, o)
    THEN [latest_count EXCEPT ![a] = CountOf(o)] ELSE latest_count

ReadingsAfter(i, a, o) ==
    IF o \in CountOutcomes /\ ~Unchanged(i, a, o)
    THEN [readings EXCEPT ![a] = @ + 1] ELSE readings

\* ------------------------------------------------------------------------
\* Between the passes: lines 643-690
\* ------------------------------------------------------------------------

\* RETRY_PRIORITY_MAP
RETRY_PRIORITY_MAP(c) ==
    IF c = NETWORK \/ c = UNKNOWN THEN 1
    ELSE IF c = PARSE THEN 2
    ELSE IF c = SSL THEN 3
    ELSE 4

\* _get_retry_priority: the category of the text in the article's last_error
\* as it was loaded from the database; the two literals of the code contain
\* no keyword and classify as UNKNOWN
get_retry_priority(last_error) ==
    IF last_error.err = "none" THEN 2
    ELSE IF last_error.err \in {"no_count", "retry_failed"} THEN RETRY_PRIORITY_MAP(UNKNOWN)
    ELSE RETRY_PRIORITY_MAP(last_error.cat)

\* failed_articles.sort(key=_get_retry_priority): a stable sort
SortByPriority(i, articles) ==
    LET sel(p) == SelectSeq(articles,
                    LAMBDA a : get_retry_priority(batch[i].last_error[a]) = p)
    IN sel(1) \o sel(2) \o sel(3) \o sel(4)

\* a finalization that stamps the end time and leaves is_running set
FinalizedStillRunning == [crawl_progress EXCEPT !.end_time = TRUE]

\* lines 768-778: the batch finalizes
Finalized == [crawl_progress EXCEPT !.is_running = FALSE, !.end_time = TRUE]

\* lines 795-798: the handler of crawl_all_sync
ExceptHandled == [crawl_progress EXCEPT !.is_running = FALSE, !.end_time = TRUE]

\* gather of pass 1 has returned: sort the failed articles, decide on pass 2
\* and create its tasks, or finalize
crawl_all_articles_after_pass1(i) ==
    /\ batch[i].pc = "pass1"
    /\ \A a \in Range(batch[i].articles) : worker[i][a].pc = "p1_done"
    /\ LET failed == SortByPriority(i, batch[i].failed_articles)
           should_retry == ~stop_signal /\ Len(failed) > 0
       IN IF should_retry
          THEN /\ batch' = [batch EXCEPT ![i].pc = "pass2",
                                         ![i].failed_articles = failed,
                                         ![i].retry_semaphore = NewRetrySemaphore]
               /\ worker' = [worker EXCEPT ![i] = [a \in Articles |->
                               IF a \in Range(failed)
                               THEN [IdleWorker EXCEPT !.pc = "p2_start"]
                               ELSE IdleWorker]]
               /\ UNCHANGED crawl_progress
          ELSE /\ batch' = [batch EXCEPT ![i] = IdleBatch]
               /\ worker' = [worker EXCEPT ![i] = [a \in Articles |-> IdleWorker]]
               /\ crawl_progress' = Finalized
    /\ stopped' = IF batch'[i].pc = "idle" THEN stopped \ {i} ELSE stopped
    /\ UNCHANGED <<config, classifier, stop_signal, throttle, now, database, obs, fetch_end>>

\* gather of pass 2 has returned: finalize
crawl_all_articles_finalize(i) ==
    /\ batch[i].pc = "pass2"
    /\ \A a \in Range(batch[i].failed_articles) : worker[i][a].pc = "p2_done"
    /\ batch' = [batch EXCEPT ![i] = IdleBatch]
    /\ worker' = [worker EXCEPT ![i] = [a \in Articles |-> IdleWorker]]
    /\ crawl_progress' = Finalized
    /\ stopped' = stopped \ {i}
    /\ UNCHANGED <<config, classifier, stop_signal, throttle, now, database, obs, fetch_end>>

\* crawl_all_articles raises, where "raise" is among the outcomes: at
\* get_all_articles or get_latest_read_counts_batch (lines 500, 530; the stop
\* flag is already cleared), or at get_browser_pool once pass 1 is over and
\* a retry is due (lines 693-694)
crawl_all_articles_raises(i) ==
    /\ "raise" \in outcomes
    /\ \/ /\ batch[i].pc = "started"
          /\ stop_signal' = stop_signal_at_start(stop_signal)
          /\ stopped' = stopped \ {i}
       \/ /\ batch[i].pc = "pass1"
          /\ \A a \in Range(batch[i].articles) : worker[i][a].pc = "p1_done"
          /\ ~stop_signal /\ Len(batch[i].failed_articles) > 0
          /\ UNCHANGED <<stop_signal, stopped>>
    /\ batch' = [batch EXCEPT ![i].pc = "raised"]
    /\ UNCHANGED <<config, classifier, crawl_progress, throttle, now, database, worker, obs,
                   fetch_end>>

\* crawl_all_sync, lines 795-799: the exception of crawl_all_articles is
\* caught, the progress is marked not running and the end time stamped
crawl_all_sync_except(i) ==
    /\ batch[i].pc = "raised"
    /\ batch' = [batch EXCEPT ![i] = IdleBatch]
    /\ worker' = [worker EXCEPT ![i] = [a \in Articles |-> IdleWorker]]
    /\ crawl_progress' = ExceptHandled
    /\ stopped' = stopped \ {i}
    /\ UNCHANGED <<config, classifier, stop_signal, throttle, now, database, obs, fetch_end>>

\* ------------------------------------------------------------------------
\* The workers.  Pass 1: crawl_with_progress(article, index), lines 585-639,
\* with crawl_article_with_retry(skip_retry=True).  Pass 2:
\* retry_with_semaphore, retry_with_pool, _do_retry_with_pool, lines 701-760.
\* Both run _crawl_with_retry, lines 350-490.
\* ------------------------------------------------------------------------
Pass(i) == IF batch[i].pc = "pass1" THEN 1 ELSE 2

\* a _do_crawl that ignores skip_retry
do_crawl_max_retries_always(skip_retry) == CRAWL_MAX_RETRIES

\* _do_crawl, lines 285-290: the arguments crawl_article_with_retry passes to
\* _crawl_with_retry
do_crawl_max_retries(skip_retry) == IF skip_retry THEN 0 ELSE CRAWL_MAX_RETRIES

\* a _do_crawl that always marks
do_crawl_mark_error_always(skip_retry) == TRUE

do_crawl_mark_error(skip_retry) == ~skip_retry

\* the arguments of _crawl_with_retry in the pass of batch i: pass 1 goes
\* through _do_crawl with skip_retry = True (line 603), pass 2 calls it with
\* CRAWL_MAX_RETRIES and mark_error_on_fail = True (line 729)
MaxRetries(i) == IF Pass(i) = 1 THEN do_crawl_max_retries(TRUE) ELSE CRAWL_MAX_RETRIES
MarkError(i) == IF Pass(i) = 1 THEN do_crawl_mark_error(TRUE) ELSE TRUE

\* what is observed when worker (i, a) starts a fetch
ObsFetchStart(o, i, a) ==
    LET e == fetch_end[domain_from_article(a)]
    IN [o EXCEPT ![i][a].nf1 = IF Pass(i) = 1 THEN @ + 1 ELSE @,
                   ![i][a].nf2 = IF Pass(i) = 2 THEN @ + 1 ELSE @,
                   ![i][a].afterStop = @ \/ i \in stopped,
                   ![i][a].gap = IF e = -1 THEN -1 ELSE now - e]

\* what is observed when worker (i, a) runs _wait_domain_rate_limit
ObsWait(i, a) == [obs EXCEPT ![i][a].waited = TRUE]

\* what is observed when a fetch of worker (i, a) ends with r
ObsFetchEnd(i, a, o, r) ==
    [obs EXCEPT ![i][a].got = IF o \in CountOutcomes THEN CountOf(o) ELSE 0,
                ![i][a].saved = @ + ReadingsAfter(i, a, o)[a] - readings[a],
                ![i][a].waited = FALSE,
                ![i][a].permAt = IF @ = 0 /\ r.cat = PERMANENT
                                 THEN obs[i][a].nf1 + obs[i][a].nf2 ELSE @,
                ![i][a].cat1 = IF Pass(i) = 1 THEN r.cat ELSE @,
                ![i][a].cat2 = IF Pass(i) = 2 THEN r.cat ELSE @,
                ![i][a].cats2 = IF Pass(i) = 2 /\ r.res # "ok" THEN @ \cup {r.cat} ELSE @,
                ![i][a].marked = @ \/ (r.res # "ok" /\ r.err # "keep"),
                ![i][a].wrote = IF r.res = "ok" \/ r.err # "keep"
                                THEN StatusAfter(a, r)[a].st ELSE @]

\* a retry that marks the article it failed on as OK
retry_with_pool_status_ok(st, a, result) ==
    IF result THEN st
    ELSE [st EXCEPT ![a] = [st |-> "OK", err |-> "none", cat |-> NoCategory]]

\* lines 739-740: a retry that failed writes ERROR with a fixed message
retry_with_pool_status(st, a, result) ==
    IF result THEN st
    ELSE [st EXCEPT ![a] = [st |-> "ERROR", err |-> "retry_failed",
                            cat |-> NoCategory]]

\* what is observed when the browser call of worker (i, a) did e and
\* _crawl_with_retry made r of it
ObsTransport(o, i, a, e, r) ==
    [o EXCEPT ![i][a].tcat = IF e \in TransportFailures THEN r.cat ELSE @,
              ![i][a].tres = IF e \in TitleFailures THEN r.res ELSE @]

\* what is observed when worker (i, a) returns result; preempted: it returns
\* at a check of the stop flag
ObsReturn(o, i, a, result, preempted) ==
    [o EXCEPT ![i][a].res1 = IF Pass(i) = 1 THEN (IF result THEN "ok" ELSE "fail") ELSE @,
              ![i][a].res2 = IF Pass(i) = 2 THEN (IF result THEN "ok" ELSE "fail") ELSE @,
              ![i][a].preempted = @ \/ preempted,
              ![i][a].counted = IF Pass(i) = 1 THEN ~result ELSE @,
              ![i][a].marked = @ \/ (Pass(i) = 2 /\ ~result),
              ![i][a].wrote = IF Pass(i) = 2 /\ ~result
                              THEN retry_with_pool_status(status, a, result)[a].st
                              ELSE @]

\* an update that counts every worker as a success and as a failure
progress_after_crawl_both(progress, current, result) ==
    [progress EXCEPT !.current = current, !.success = @ + 1, !.failed = @ + 1]

\* lines 615-621: the update of _crawl_progress by a worker of pass 1
progress_after_crawl(progress, current, result) ==
    [progress EXCEPT !.current = current,
                     !.success = IF result THEN @ + 1 ELSE @,
                     !.failed = IF result THEN @ ELSE @ + 1]

\* an update that does not take a retried success out of the failures
progress_after_retry_keeps_failed(progress, current, result) ==
    [progress EXCEPT !.current = current,
                     !.success = IF result THEN @ + 1 ELSE @,
                     !.retried = @ + 1]

\* lines 730-738: the update of _crawl_progress by a worker of pass 2
progress_after_retry(progress, current, result) ==
    [progress EXCEPT !.current = current,
                     !.success = IF result THEN @ + 1 ELSE @,
                     !.failed = IF result THEN @ - 1 ELSE @,
                     !.retried = @ + 1]

\* a list of retry candidates that every article joins
failed_after_crawl_all(failed, a, result) == Append(failed, a)

\* lines 623-625: an article whose result is False joins failed_articles
failed_after_crawl(failed, a, result) == IF result THEN failed ELSE Append(failed, a)

\* Pass 1, lines 614-639 after crawl_article_with_retry returned result: the
\* progress is updated, a failed article is appended to failed_articles and
\* the end of the request is recorded for the domain.  st and progress are
\* the status table and the progress record left by _crawl_with_retry, sems
\* and permits the domain semaphores and the permits of the global semaphore
\* once the worker has released what it held.  (The sleep of CRAWL_DELAY at
\* line 628 is taken only with ANTI_SCRAPING_ENABLED off, which is not the
\* default.)
P1Complete(i, a, result, st, progress, sems, permits) ==
    /\ crawl_progress' = progress_after_crawl(progress,
                                              IndexOf(batch[i].articles, a) + 1, result)
    /\ status' = st
    /\ batch' = [batch EXCEPT
                   ![i].failed_articles = failed_after_crawl(@, a, result),
                   ![i].semaphore = permits]
    /\ semaphores' = sems
    /\ domain_last_request_time' = record_domain_request_done(domain_from_article(a))
    /\ worker' = [worker EXCEPT ![i][a] = [IdleWorker EXCEPT !.pc = "p1_done"]]

\* Pass 2, lines 730-746 and 717-718 after _crawl_with_retry returned result
P2Complete(i, a, result, st, progress, sems) ==
    /\ crawl_progress' = progress_after_retry(progress,
            Len(batch[i].articles) + IndexOf(batch[i].failed_articles, a) + 1, result)
    /\ status' = retry_with_pool_status(st, a, result)
    /\ batch' = [batch EXCEPT ![i].retry_semaphore = @ + 1]
    /\ semaphores' = sems
    /\ domain_last_request_time' = record_domain_request_done(domain_from_article(a))
    /\ worker' = [worker EXCEPT ![i][a] = [IdleWorker EXCEPT !.pc = "p2_done"]]

\* _crawl_with_retry returned result to a worker that holds its domain
\* semaphore and, in pass 1, a permit of the global semaphore
Complete(i, a, result, st, progress) ==
    IF Pass(i) = 1
    THEN P1Complete(i, a, result, st, progress,
                    Release(semaphores, worker[i][a].dsem), batch[i].semaphore + 1)
    ELSE P2Complete(i, a, result, st, progress, Release(semaphores, worker[i][a].dsem))

\* _get_domain_semaphore called by a worker that then waits for the semaphore
GetSemaphore(i, a, pc) ==
    LET g == get_domain_semaphore(domain_from_article(a))
    IN /\ worker' = [worker EXCEPT ![i][a].pc = pc, ![i][a].dsem = g.id]
       /\ domain_semaphores' = g.table
       /\ semaphores' = g.sems

\* lines 587-593: the first check of the stop flag, the spacing wait, the
\* domain semaphore
P1_Start(i, a) ==
    /\ batch[i].pc = "pass1"
    /\ worker[i][a].pc = "p1_start"
    /\ IF stop_signal
       THEN /\ worker' = [worker EXCEPT ![i][a].pc = "p1_done"]
            /\ obs' = [obs EXCEPT ![i][a].preempted = TRUE]
            /\ UNCHANGED <<domain_semaphores, semaphores>>
       ELSE /\ LET sleep_time == wait_domain_rate_limit(domain_from_article(a))
               IN IF sleep_time > 0
                  THEN /\ worker' = [worker EXCEPT ![i][a].pc = "p1_sleep",
                                                   ![i][a].wake = now + sleep_time]
                       /\ UNCHANGED <<domain_semaphores, semaphores>>
                  ELSE GetSemaphore(i, a, "p1_wait_dom")
            /\ obs' = ObsWait(i, a)
    /\ UNCHANGED <<config, classifier, crawl_progress, stop_signal, domain_last_request_time, now,
                   database, batch, fetch_end, stopped>>

\* line 155: the sleep of the spacing wait of pass 1 is over
P1_Wake(i, a) ==
    /\ worker[i][a].pc = "p1_sleep"
    /\ now >= worker[i][a].wake
    /\ GetSemaphore(i, a, "p1_wait_dom")
    /\ UNCHANGED <<config, classifier, crawl_progress, stop_signal, domain_last_request_time, now,
                   database, batch, obs, fetch_end, stopped>>

\* lines 385-390: the stop flag was found clear, extract_article_info is
\* called
StartFetch(i, a) ==
    /\ worker' = [worker EXCEPT ![i][a].pc = "fetch"]
    /\ obs' = ObsFetchStart(obs, i, a)

\* the same for a worker of which o has been observed in this step
StartFetchAfter(o, i, a) ==
    /\ worker' = [worker EXCEPT ![i][a].pc = "fetch"]
    /\ obs' = ObsFetchStart(o, i, a)

\* lines 596-598, 275-298: the domain semaphore is acquired; the platform and
\* the stop flag are checked; the global semaphore is acquired if it is free
P1_AcquireDomain(i, a) ==
    /\ worker[i][a].pc = "p1_wait_dom"
    /\ Available(semaphores, worker[i][a].dsem)
    /\ IF ~is_platform_allowed(Site(a)) \/ stop_signal
       THEN /\ P1Complete(i, a, FALSE, status, crawl_progress, semaphores,
                          batch[i].semaphore)
            /\ obs' = ObsReturn(obs, i, a, FALSE, stop_signal)
       ELSE /\ semaphores' = Acquire(semaphores, worker[i][a].dsem)
            /\ IF batch[i].semaphore > 0
               THEN /\ StartFetch(i, a)
                    /\ batch' = [batch EXCEPT ![i].semaphore = @ - 1]
               ELSE /\ worker' = [worker EXCEPT ![i][a].pc = "p1_wait_sem"]
                    /\ UNCHANGED <<batch, obs>>
            /\ UNCHANGED <<crawl_progress, status, domain_last_request_time>>
    /\ UNCHANGED <<config, classifier, stop_signal, domain_semaphores, now, latest_count, readings,
                   fetch_end, stopped>>

\* lines 293-298: the global semaphore is acquired after a wait
P1_AcquireGlobal(i, a) ==
    /\ worker[i][a].pc = "p1_wait_sem"
    /\ batch[i].semaphore > 0
    /\ IF stop_signal
       THEN /\ P1Complete(i, a, FALSE, status, crawl_progress,
                          Release(semaphores, worker[i][a].dsem), batch[i].semaphore)
            /\ obs' = ObsReturn(obs, i, a, FALSE, TRUE)
       ELSE /\ StartFetch(i, a)
            /\ batch' = [batch EXCEPT ![i].semaphore = @ - 1]
            /\ UNCHANGED <<crawl_progress, status, semaphores, domain_last_request_time>>
    /\ UNCHANGED <<config, classifier, stop_signal, domain_semaphores, now, latest_count, readings,
                   fetch_end, stopped>>

\* lines 757-708: the permit of retry_semaphore, the check of the stop flag,
\* the domain semaphore
P2_Start(i, a) ==
    /\ batch[i].pc = "pass2"
    /\ worker[i][a].pc = "p2_start"
    /\ batch[i].retry_semaphore > 0
    /\ IF stop_signal
       THEN /\ worker' = [worker EXCEPT ![i][a].pc = "p2_done"]
            /\ obs' = [obs EXCEPT ![i][a].preempted = TRUE]
            /\ UNCHANGED <<batch, domain_semaphores, semaphores>>
       ELSE /\ GetSemaphore(i, a, "p2_wait_dom")
            /\ batch' = [batch EXCEPT ![i].retry_semaphore = @ - 1]
            /\ UNCHANGED obs
    /\ UNCHANGED <<config, classifier, crawl_progress, stop_signal, domain_last_request_time, now,
                   database, fetch_end, stopped>>

\* lines 723-729 and 385-390: attempt 0 of _crawl_with_retry in pass 2; held
\* is the domain semaphores with the worker's permit taken
P2_Begin(i, a, held, o) ==
    IF stop_signal
    THEN /\ P2Complete(i, a, FALSE, status, crawl_progress,
                       Release(held, worker[i][a].dsem))
         /\ obs' = ObsReturn(o, i, a, FALSE, TRUE)
    ELSE /\ StartFetchAfter(o, i, a)
         /\ semaphores' = held
         /\ UNCHANGED <<crawl_progress, status, batch, domain_last_request_time>>

\* lines 711-716: the domain semaphore is acquired, then the spacing wait
P2_AcquireDomain(i, a) ==
    /\ worker[i][a].pc = "p2_wait_dom"
    /\ Available(semaphores, worker[i][a].dsem)
    /\ LET sleep_time == wait_domain_rate_limit(domain_from_article(a))
           held == Acquire(semaphores, worker[i][a].dsem)
       IN IF sleep_time > 0
          THEN /\ worker' = [worker EXCEPT ![i][a].pc = "p2_sleep",
                                           ![i][a].wake = now + sleep_time]
               /\ semaphores' = held
               /\ obs' = ObsWait(i, a)
               /\ UNCHANGED <<crawl_progress, status, batch, domain_last_request_time>>
          ELSE P2_Begin(i, a, held, ObsWait(i, a))
    /\ UNCHANGED <<config, classifier, stop_signal, domain_semaphores, now, latest_count, readings,
                   fetch_end, stopped>>

\* line 155: the sleep of the spacing wait of pass 2 is over
P2_Wake(i, a) ==
    /\ worker[i][a].pc = "p2_sleep"
    /\ now >= worker[i][a].wake
    /\ P2_Begin(i, a, semaphores, obs)
    /\ UNCHANGED <<config, classifier, stop_signal, domain_semaphores, now, latest_count, readings,
                   fetch_end, stopped>>

\* extract_article_info returns or raises: lines 390-490
FetchEnd(i, a, e) ==
    /\ worker[i][a].pc = "fetch"
    /\ e \in Outcomes \cup TransportFailures \cup TitleFailures
    /\ LET o == attempt_outcome(e)
           r == crawl_with_retry_outcome(MaxRetries(i), MarkError(i),
                                         worker[i][a].attempt, o)
       IN /\ latest_count' = LatestAfter(i, a, o)
          /\ readings' = ReadingsAfter(i, a, o)
          /\ IF r.res = "retry"
             THEN /\ worker' = [worker EXCEPT ![i][a].pc = "backoff",
                                              ![i][a].attempt = @ + 1,
                                              ![i][a].cat = r.cat]
                  /\ status' = StatusAfter(a, r)
                  /\ obs' = ObsTransport(ObsFetchEnd(i, a, o, r), i, a, e, r)
                  /\ UNCHANGED <<crawl_progress, batch, semaphores,
                                 domain_last_request_time>>
             ELSE /\ Complete(i, a, r.res = "ok", StatusAfter(a, r), crawl_progress)
                  /\ obs' = ObsReturn(ObsTransport(ObsFetchEnd(i, a, o, r), i, a, e, r),
                                      i, a, r.res = "ok", FALSE)
    /\ fetch_end' = [fetch_end EXCEPT ![domain_from_article(a)] = now]
    /\ UNCHANGED <<config, classifier, stop_signal, domain_semaphores, now, stopped>>

\* lines 631-637: the handler of a worker of pass 1
progress_after_exception(progress) == [progress EXCEPT !.failed = @ + 1]

\* lines 749-751: the handler of a worker of pass 2
progress_after_retry_exception(progress) == [progress EXCEPT !.retried = @ + 1]

\* a handler of pass 2 that leaves the status of the article as it was
status_after_retry_exception_kept(st, a) == st

\* line 749: update_article_status(article['id'], 'ERROR', str(e))
status_after_retry_exception(st, a) ==
    [st EXCEPT ![a] = [st |-> "ERROR", err |-> "str_e", cat |-> UNKNOWN]]

\* an exception escapes the crawl of a worker, where "raise" is among the
\* outcomes.  Pass 1, lines 631-639: the article is appended to
\* failed_articles, progress.failed is incremented, the worker returns False.
\* Pass 2, lines 747-752 and 717-718: ERROR is written with the text of the
\* exception, progress.retried is incremented, the worker returns False.  The
\* semaphores held are released by the exits of their async with blocks.
WorkerRaises(i, a) ==
    /\ "raise" \in outcomes
    /\ worker[i][a].pc = "fetch"
    /\ IF Pass(i) = 1
       THEN /\ crawl_progress' = progress_after_exception(crawl_progress)
            /\ batch' = [batch EXCEPT ![i].failed_articles = Append(@, a),
                                      ![i].semaphore = @ + 1]
            /\ worker' = [worker EXCEPT ![i][a] = [IdleWorker EXCEPT !.pc = "p1_done"]]
            /\ UNCHANGED status
       ELSE /\ crawl_progress' = progress_after_retry_exception(crawl_progress)
            /\ batch' = [batch EXCEPT ![i].retry_semaphore = @ + 1]
            /\ worker' = [worker EXCEPT ![i][a] = [IdleWorker EXCEPT !.pc = "p2_done"]]
            /\ status' = status_after_retry_exception(status, a)
    /\ semaphores' = Release(semaphores, worker[i][a].dsem)
    /\ domain_last_request_time' = record_domain_request_done(domain_from_article(a))
    /\ obs' = [ObsReturn(obs, i, a, FALSE, FALSE) EXCEPT
                 ![i][a].raised = TRUE,
                 ![i][a].wrote = IF Pass(i) = 2
                                 THEN status_after_retry_exception(status, a)[a].st
                                 ELSE @]
    /\ UNCHANGED <<config, classifier, stop_signal, domain_semaphores, now, latest_count, readings,
                   fetch_end, stopped>>

\* lines 369-390: the sleep before a retry is over; the stop flag is checked,
\* progress.retried is incremented and the next attempt starts
Retry(i, a) ==
    /\ worker[i][a].pc = "backoff"
    /\ IF stop_signal
       THEN /\ Complete(i, a, FALSE, status, crawl_progress)
            /\ obs' = ObsReturn(obs, i, a, FALSE, TRUE)
       ELSE /\ StartFetch(i, a)
            /\ crawl_progress' = [crawl_progress EXCEPT !.retried = @ + 1]
            /\ UNCHANGED <<status, batch, semaphores, domain_last_request_time>>
    /\ UNCHANGED <<config, classifier, stop_signal, domain_semaphores, now, latest_count, readings,
                   fetch_end, stopped>>

\* a worker inside the asyncio.sleep of the spacing wait (line 155)
Sleeping(i, a) == worker[i][a].pc \in {"p1_sleep", "p2_sleep"} /\ now < worker[i][a].wake

\* time passes; the clock is read only by the spacing wait, which is off
\* with CRAWL_MIN_DELAY_PER_DOMAIN <= 0.  The clock stops at MaxClock past
\* the minimum delay once no worker is left sleeping.
Tick ==
    /\ minDelay > 0
    /\ \/ now < minDelay + MaxClock
       \/ \E i \in Invokers, a \in Articles : Sleeping(i, a)
    /\ now' = now + 1
    /\ UNCHANGED <<config, classifier, crawl_progress, stop_signal, throttle, database, batch,
                   worker, obs, fetch_end, stopped>>

Next ==
    \/ stop_crawling
    \/ Tick
    \/ \E i \in Invokers :
          \/ crawl_all_sync(i)
          \/ crawl_all_articles_load(i)
          \/ crawl_all_articles_init(i)
          \/ crawl_all_articles_after_pass1(i)
          \/ crawl_all_articles_finalize(i)
          \/ crawl_all_articles_raises(i)
          \/ crawl_all_sync_except(i)
          \/ \E a \in Articles :
                \/ P1_Start(i, a)
                \/ P1_Wake(i, a)
                \/ P1_AcquireDomain(i, a)
                \/ P1_AcquireGlobal(i, a)
                \/ P2_Start(i, a)
                \/ P2_AcquireDomain(i, a)
                \/ P2_Wake(i, a)
                \/ Retry(i, a)
                \/ WorkerRaises(i, a)
                \/ \E o \in outcomes : FetchEnd(i, a, o)

Spec == Init /\ [][Next]_vars

\* what invocation i does once crawl_all_sync has passed its guard: the
\* steps of its thread and of the tasks of its event loop
Step(i) ==
    \/ crawl_all_articles_load(i)
    \/ crawl_all_articles_init(i)
    \/ crawl_all_articles_after_pass1(i)
    \/ crawl_all_articles_finalize(i)
    \/ crawl_all_sync_except(i)
    \/ \E a \in Articles :
          \/ P1_Start(i, a)
          \/ P1_Wake(i, a)
          \/ P1_AcquireDomain(i, a)
          \/ P1_AcquireGlobal(i, a)
          \/ P2_Start(i, a)
          \/ P2_AcquireDomain(i, a)
          \/ P2_Wake(i, a)
          \/ Retry(i, a)
          \/ \E o \in outcomes : FetchEnd(i, a, o)

\* a thread that can run does run, a task of the event loop that is ready is
\* run, every fetch returns or raises, and time passes
Fairness == WF_vars(Tick) /\ \A i \in Invokers : WF_vars(Step(i))

\* the scenarios of the termination properties: every outcome of a fetch,
\* contention for one global permit, overlapping invocations, the spacing
\* wait and exceptions
LiveScenarios ==
    {ScenarioSingle, ScenarioPair(0, 1), ScenarioOverlap, ScenarioSpacing, ScenarioRaise}

InitLive == InitWith(LiveScenarios)

SpecLive == InitLive /\ [][Next]_vars /\ Fairness

\* the deployments in which one thread calls crawl_all_sync, once: a batch
\* that runs on its own
SingleScenarios == {s \in Scenarios : s.runs = OneThread}

InitSingle == InitWith(SingleScenarios)

SpecSingle == InitSingle /\ [][Next]_vars

\* ------------------------------------------------------------------------
\* One batch over two articles of one domain whose fetches fail in
\* different categories
\* ------------------------------------------------------------------------
ScenarioOrder ==
    [db |-> <<1, 2>>, runs |-> OneThread, k |-> 0, d |-> 0, n |-> 2,
     o |-> {NETWORK, SSL, PARSE}]

InitOrder == InitWith(SingleScenarios \cup {ScenarioOrder})

SpecOrder == InitOrder /\ [][Next]_vars

\* ------------------------------------------------------------------------
\* The classifier on its own: an error with some message is raised and the
\* handler of _crawl_with_retry classifies it
\* ------------------------------------------------------------------------
Messages == UNION {[1..n -> 1..Len(Fragments)] : n \in 0..MaxFragments}

InitClassify == InitWith({ScenarioSingle})

\* extract_article_info raises an error
RaiseError(ps) ==
    /\ parts = <<>> /\ classified = NoClassified
    /\ ps # <<>>
    /\ parts' = ps
    /\ UNCHANGED <<classified, backoff, browsers, units, config, crawl_progress, stop_signal, throttle, now,
                   database, batch, worker, obs, fetch_end, stopped>>

\* lines 444-461: last_error_category, category_max_retries, is_retryable
Classify ==
    /\ parts # <<>> /\ classified = NoClassified
    /\ classified' = [category |-> get_error_category(Message(parts)),
                      max_retries |-> get_max_retries_for_category(
                                          get_error_category(Message(parts))),
                      is_retryable |-> is_retryable_error(
                                          get_error_category(Message(parts)))]
    /\ UNCHANGED <<parts, backoff, browsers, units, config, crawl_progress, stop_signal, throttle, now,
                   database, batch, worker, obs, fetch_end, stopped>>

NextClassify == (\E ps \in Messages : RaiseError(ps)) \/ Classify

SpecClassify == InitClassify /\ [][NextClassify]_vars

\* ------------------------------------------------------------------------
\* The retry delay on its own: under some configuration, the delays of the
\* successive retries of one article whose attempts fail with one category
\* ------------------------------------------------------------------------
DelayCfgs ==
    [delay : {Rat(0, 1), Rat(1, 1), Rat(2, 1), Rat(3, 1)},
     backoff : {Rat(1, 2), Rat(1, 1), Rat(3, 2), Rat(2, 1)},
     max_delay : {Rat(2, 1), Rat(5, 1)},
     ssl_delay : {Rat(5, 1)},
     jitter : BOOLEAN,
     category : {NETWORK, UNKNOWN, PARSE, SSL}]

InitDelay ==
    /\ InitState({ScenarioSingle})
    /\ delay_cfg \in DelayCfgs
    /\ pool_cfg = DefaultPoolCfg
    /\ task = NewTasks

\* lines 368-373: attempt > 0 of the loop computes its delay and sleeps
RetryDelay(j) ==
    /\ Len(delays) < MaxAttempt
    /\ j = 0 \/ delay_cfg.jitter
    /\ delays' = Append(delays, calculate_retry_delay(delay_cfg, delay_cfg.category,
                                                      Len(delays) + 1, j))
    /\ UNCHANGED <<delay_cfg, parts, classified, browsers, units, config, crawl_progress, stop_signal,
                   throttle, now, database, batch, worker, obs, fetch_end, stopped>>

NextDelay == \E j \in Jitters : RetryDelay(j)

SpecDelay == InitDelay /\ [][NextDelay]_vars

\* ------------------------------------------------------------------------
\* The browser pool on its own: the retry tasks of one pass 2, under
\* retry_semaphore, each running _do_retry_with_pool once
\* ------------------------------------------------------------------------
PoolCfgs == [max_size : {1, 2}, min_size : {0, 1}, permits : {2, 3}]

InitPool ==
    /\ InitState({ScenarioSingle})
    /\ delay_cfg = DefaultDelayCfg
    /\ pool_cfg \in PoolCfgs
    /\ task = NewTasks

\* the tasks inside async with retry_semaphore (line 757)
InRetry == {w \in Tasks : task[w].pc \notin {"start", "done"}}

\* the rest of the model does not move
PoolFrame ==
    UNCHANGED <<pool_cfg, parts, classified, backoff, units, config, crawl_progress,
                stop_signal, throttle, now, database, batch, worker, obs, fetch_end,
                stopped>>

\* lines 757-758 and 723: a task gets a permit of retry_semaphore and calls
\* acquire(); due: the interval of _cleanup_idle has passed
T_Start(w, due) ==
    /\ task[w].pc = "start"
    /\ Cardinality(InRetry) < pool_cfg.permits
    /\ LET r == FirstAcquire(browser_pool, task, w, due)
       IN browser_pool' = r.b /\ task' = r.t
    /\ PoolFrame

\* the lock is handed to the task that waited longest, which goes on with
\* its acquire() or release()
T_Granted(w, due, valid) ==
    /\ browser_pool.owner = 0
    /\ browser_pool.waiters # <<>>
    /\ Head(browser_pool.waiters) = w
    /\ LET b == [browser_pool EXCEPT !.owner = w, !.waiters = Tail(@)]
           bc == IF due THEN CleanupIdle(b) ELSE b
           r == IF task[w].pc = "wait1"
                THEN FirstAcquired(AcquireBody(bc, task, w, "creating1"), w)
                ELSE IF task[w].pc = "wait2"
                THEN SecondAcquired(AcquireBody(bc, task, w, "creating2"), w)
                ELSE [b |-> Unlock(ReleaseBody(b, task[w].crawler, valid)),
                      t |-> [task EXCEPT ![w].pc = "done"]]
       IN browser_pool' = r.b /\ task' = r.t
    /\ PoolFrame

\* browser_pool.py lines 58-65: _create_crawler() returns, or raises and
\* acquire() returns None
T_Created(w, ok) ==
    /\ task[w].pc \in {"creating1", "creating2"}
    /\ LET c == browser_pool.created + 1
           r == IF ok
                THEN [b |-> Unlock([browser_pool EXCEPT !.created = c,
                                                        !.in_use = @ \cup {c}]),
                      t |-> UseCrawler(task, w, c, ~task[w].fell_back)]
                ELSE IF task[w].pc = "creating1"
                THEN FallBack(Unlock(browser_pool), task, w)
                ELSE Standalone(Unlock(browser_pool), task, w)
       IN browser_pool' = r.b /\ task' = r.t
    /\ PoolFrame

\* extractors.py lines 152-154: the instance of its own is started, or
\* __aenter__ raises and the handler of crawler.py lines 747-752 runs
T_Standalone(w, ok) ==
    /\ task[w].pc = "standalone"
    /\ IF ok
       THEN /\ browser_pool' = [browser_pool EXCEPT !.created = @ + 1]
            /\ task' = UseCrawler(task, w, browser_pool.created + 1, FALSE)
       ELSE /\ task' = [task EXCEPT ![w].pc = "done"]
            /\ UNCHANGED browser_pool
    /\ PoolFrame

\* crawler.py lines 729-746: _crawl_with_retry is over; with use_pool the
\* instance is released, else it is closed
T_CrawlEnd(w, valid) ==
    /\ task[w].pc = "crawl"
    /\ IF task[w].use_pool
       THEN IF LockFree(browser_pool)
            THEN /\ browser_pool' = Unlock(ReleaseBody(Lock(browser_pool, w),
                                                       task[w].crawler, valid))
                 /\ task' = [task EXCEPT ![w].pc = "done"]
            ELSE /\ browser_pool' = Enqueue(browser_pool, w)
                 /\ task' = [task EXCEPT ![w].pc = "wait_rel"]
       ELSE /\ browser_pool' = [browser_pool EXCEPT !.closed = @ \cup {task[w].crawler}]
            /\ task' = [task EXCEPT ![w].pc = "done"]
    /\ PoolFrame

NextPool ==
    \E w \in Tasks :
        \/ \E due \in BOOLEAN : T_Start(w, due)
        \/ \E due \in BOOLEAN, valid \in BOOLEAN : T_Granted(w, due, valid)
        \/ \E ok \in BOOLEAN : T_Created(w, ok)
        \/ \E ok \in BOOLEAN : T_Standalone(w, ok)
        \/ \E valid \in BOOLEAN : T_CrawlEnd(w, valid)

SpecPool == InitPool /\ [][NextPool]_vars

\* ------------------------------------------------------------------------
\* The browser pool under any calls of acquire() and release(), each with
\* any instance ever made, in use or not.  _pool_lock is held from the start
\* of a call to its end, so the calls take effect one after the other.
\* ------------------------------------------------------------------------
MaxInstances == 6

InitPoolAny ==
    /\ InitState({ScenarioSingle})
    /\ delay_cfg = DefaultDelayCfg
    /\ pool_cfg = DefaultPoolCfg
    /\ task = NewTasks

\* lines 50-54: instances are taken from the pool until one is found that
\* is not in use; b.pool is empty when there is none
RECURSIVE PopFree(_)
PopFree(b) ==
    IF b.pool = <<>> THEN b
    ELSE IF Head(b.pool) \notin b.in_use
    THEN [b EXCEPT !.in_use = @ \cup {Head(b.pool)}]
    ELSE PopFree([b EXCEPT !.pool = Tail(@)])

\* acquire(), lines 45-69, from the lock to its release; due: the interval
\* of _cleanup_idle has passed; ok: _create_crawler() does not raise
acquire(due, ok) ==
    /\ LockFree(browser_pool)
    /\ LET b == IF due THEN CleanupIdle(browser_pool) ELSE browser_pool
           p == PopFree(b)
       IN browser_pool' =
            IF p.pool # <<>> THEN [p EXCEPT !.pool = Tail(@)]
            ELSE IF Cardinality(p.in_use) < pool_cfg.max_size /\ ok
                    /\ p.created < MaxInstances
            THEN [p EXCEPT !.created = @ + 1, !.in_use = @ \cup {p.created + 1}]
            ELSE p
    /\ UNCHANGED task
    /\ PoolFrame

\* release(), lines 73-85, from the lock to its release
release(c, valid) ==
    /\ c \in 1..browser_pool.created
    /\ LockFree(browser_pool)
    /\ browser_pool' = [ReleaseBody(browser_pool, c, valid) EXCEPT
                          !.stray = @ \/ c \notin browser_pool.in_use]
    /\ UNCHANGED task
    /\ PoolFrame

NextPoolAny ==
    \/ \E due \in BOOLEAN, ok \in BOOLEAN : acquire(due, ok)
    \/ \E c \in 1..MaxInstances, valid \in BOOLEAN : release(c, valid)

SpecPoolAny == InitPoolAny /\ [][NextPoolAny]_vars

\* ------------------------------------------------------------------------
\* _interleave_articles_by_site on its own: it is called with a list of
\* articles, which are distinct rows of the articles table
\* ------------------------------------------------------------------------
ArticleLists ==
    UNION {{l \in [1..n -> Articles] : \A j, k \in 1..n : j # k => l[j] # l[k]} :
           n \in 0..NumArticles}

InitInterleave ==
    /\ InitBatch({ScenarioSingle})
    /\ delay_cfg = DefaultDelayCfg
    /\ pool_cfg = DefaultPoolCfg
    /\ task = NewTasks
    /\ interleaving \in [articles : ArticleLists, interleaved : {<<>>}, returned : {FALSE}]
    /\ task_manager = NewTaskManager

\* line 540: articles = _interleave_articles_by_site(articles)
Interleave ==
    /\ ~interleaving.returned
    /\ interleaving' = [interleaving EXCEPT
                          !.interleaved = interleave_articles_by_site(interleaving.articles),
                          !.returned = TRUE]
    /\ UNCHANGED <<task_manager, parts, classified, backoff, browsers, config,
                   crawl_progress, stop_signal, throttle, now, database, batch, worker,
                   obs, fetch_end, stopped>>

NextInterleave == Interleave

SpecInterleave == InitInterleave /\ [][NextInterleave]_vars

\* ------------------------------------------------------------------------
\* TaskManager: the threads that submit and cancel, and the worker loop
\* ------------------------------------------------------------------------
InitTaskManager == InitWith({ScenarioSingle})

\* the rest of the model does not move
TaskManagerFrame ==
    UNCHANGED <<interleaving, parts, classified, backoff, browsers, config, crawl_progress,
                stop_signal, throttle, now, database, batch, worker, obs, fetch_end,
                stopped>>

\* submit_task, lines 115-129: the task is registered as pending; the put
\* on the queue is left to add_to_queue
submit_task(t) ==
    /\ task_manager.tasks[t] = "none"
    /\ task_manager' = [task_manager EXCEPT !.tasks[t] = "pending",
                                            !.putting = @ \cup {t}]
    /\ TaskManagerFrame

\* add_to_queue, lines 133-148: self._task_queue.put(task_id)
add_to_queue(t) ==
    /\ t \in task_manager.putting
    /\ task_manager' = [task_manager EXCEPT !.putting = @ \ {t},
                                            !.task_queue = Append(@, t)]
    /\ TaskManagerFrame

\* cancel_task, lines 190-196, when it returns True
cancel_task(t) ==
    /\ task_manager.tasks[t] \in {"pending", "running"}
    /\ task_manager' = [task_manager EXCEPT
                          !.tasks[t] = "cancelled",
                          !.cancelled_pending =
                              IF task_manager.tasks[t] = "pending" THEN @ \cup {t} ELSE @]
    /\ TaskManagerFrame

\* line 66: the worker loop gets a task from the queue
process_tasks_get ==
    /\ task_manager.pc = "get"
    /\ task_manager.task_queue # <<>>
    /\ task_manager' = [task_manager EXCEPT !.task_id = Head(task_manager.task_queue),
                                            !.task_queue = Tail(@),
                                            !.pc = "limit"]
    /\ TaskManagerFrame

\* lines 69-73: the loop goes on once fewer than _max_concurrent_tasks run
process_tasks_limit ==
    /\ task_manager.pc = "limit"
    /\ task_manager.current_running < max_concurrent_tasks
    /\ task_manager' = [task_manager EXCEPT !.pc = "take"]
    /\ TaskManagerFrame

\* a loop that runs whatever it takes from the queue
runs_any(task_status) == TRUE

\* line 78: a task that is not pending is passed over
runs(task_status) == task_status = "pending"

\* lines 76-85: the task is passed over, or set running and its function
\* called
process_tasks_take ==
    /\ task_manager.pc = "take"
    /\ IF runs(task_manager.tasks[task_manager.task_id])
       THEN task_manager' = [task_manager EXCEPT
                               !.tasks[task_manager.task_id] = "running",
                               !.current_running = @ + 1,
                               !.invoked = @ \cup {task_manager.task_id},
                               !.pc = "func"]
       ELSE task_manager' = [task_manager EXCEPT !.pc = "get", !.task_id = 0]
    /\ TaskManagerFrame

\* lines 85-97: the function returns (ok) or raises; the status is written
\* and _current_running goes down
process_tasks_done(ok) ==
    /\ task_manager.pc = "func"
    /\ task_manager' = [task_manager EXCEPT
                          !.tasks[task_manager.task_id] =
                              IF ok THEN "completed" ELSE "failed",
                          !.current_running = @ - 1,
                          !.pc = "get", !.task_id = 0]
    /\ TaskManagerFrame

NextTaskManager ==
    \/ \E t \in TaskIds : submit_task(t) \/ add_to_queue(t) \/ cancel_task(t)
    \/ process_tasks_get
    \/ process_tasks_limit
    \/ process_tasks_take
    \/ \E ok \in BOOLEAN : process_tasks_done(ok)

SpecTaskManager == InitTaskManager /\ [][NextTaskManager]_vars

\* ------------------------------------------------------------------------
\* Everything a coroutine can wait on: the semaphores of the two passes, as
\* the workers of a batch take them, and retry_semaphore with the lock of the
\* pool, as the retry tasks take them
\* ------------------------------------------------------------------------
\* no thread calls crawl_all_sync
NoThread == [i \in Invokers |-> 0]
ScenarioIdle ==
    [db |-> <<1, 4>>, runs |-> NoThread, k |-> 1, d |-> 0, n |-> 2, o |-> {"c2"}]

\* the retry tasks when all are over
NoTasks == [w \in Tasks |-> [NewTask EXCEPT !.pc = "done"]]

\* two articles of one domain: a per-domain cap of 2 under a global
\* concurrency of 1, a per-domain cap of 1 under a global concurrency of 1
\* and of 2; the spacing wait; exceptions
WaitScenarios ==
    {ScenarioPair(2, 1), ScenarioPair(1, 1), ScenarioPair(1, 2), ScenarioSpacing,
     ScenarioRaise}

\* a pool of one instance that keeps none idle, with two permits of
\* retry_semaphore
WaitPoolCfgs == {c \in PoolCfgs : c.max_size = 1 /\ c.min_size = 0 /\ c.permits = 2}

\* the workers of batches with the semaphores, or the retry tasks with the
\* pool
InitWait ==
    \/ /\ InitState(WaitScenarios)
       /\ delay_cfg = DefaultDelayCfg
       /\ pool_cfg = DefaultPoolCfg
       /\ task = NoTasks
    \/ /\ InitState({ScenarioIdle})
       /\ delay_cfg = DefaultDelayCfg
       /\ pool_cfg \in WaitPoolCfgs
       /\ task = NewTasks

\* the steps of retry task w
TaskStep(w) ==
    \/ \E due \in BOOLEAN : T_Start(w, due)
    \/ \E due \in BOOLEAN, valid \in BOOLEAN : T_Granted(w, due, valid)
    \/ \E ok \in BOOLEAN : T_Created(w, ok)
    \/ \E ok \in BOOLEAN : T_Standalone(w, ok)
    \/ \E valid \in BOOLEAN : T_CrawlEnd(w, valid)

\* a stop is requested while an invocation is under way
StopBatch == (\E i \in Invokers : InBatch(i)) /\ stop_crawling

NextWait ==
    \/ StopBatch
    \/ Tick
    \/ \E i \in Invokers :
          \/ crawl_all_sync(i)
          \/ crawl_all_articles_raises(i)
          \/ Step(i)
    \/ NextPool

\* as Fairness; the browser starts or fails to start, a crawl of a retry
\* task ends, and the event loop runs every task that is ready
SpecWait ==
    InitWait /\ [][NextWait]_vars /\ Fairness /\ \A w \in Tasks : WF_vars(TaskStep(w))

\* ------------------------------------------------------------------------
\* Properties
\* ------------------------------------------------------------------------
\* the workers of batch i that are inside extract_article_info
Fetching(i) == {a \in Articles : worker[i][a].pc = "fetch"}

\* the articles of the database whose platform is, is not, allow-listed
Allowed == {a \in Range(db) : is_platform_allowed(Site(a))}
Disallowed == Range(db) \ Allowed

\* C1: for any interleaving of concurrent crawl_all_sync invocations, at most
\* one batch executes at any time: no two invocations have the workers of
\* crawl_all_articles running together.
C1_AtMostOneBatch == Cardinality({i \in Invokers : Running(i)}) <= 1

\* C2: during a batch, in pass 1 and in pass 2, the number of fetches of that
\* batch executing simultaneously never exceeds CRAWL_CONCURRENCY.
C2_GlobalBound == \A i \in Invokers : Cardinality(Fetching(i)) <= concurrency

\* C2 witness: in pass 1 a batch has CRAWL_CONCURRENCY fetches in flight and
\* another worker of it waits for a permit of the global semaphore.
C2_Saturated ==
    \E i \in Invokers : \E a \in Articles :
        /\ batch[i].pc = "pass1"
        /\ worker[i][a].pc = "p1_wait_sem"
        /\ Cardinality(Fetching(i)) = concurrency

\* C3: in pass 1 every allowed article whose worker is not pre-empted by the
\* stop flag gets exactly one fetch attempt, whatever the result: no article
\* gets a second attempt in pass 1, and a worker of pass 1 that returned
\* without meeting the stop flag made one.
C3_OneAttemptInPass1 ==
    \A i \in Invokers : \A a \in Articles :
        /\ obs[i][a].nf1 <= 1
        /\ (obs[i][a].res1 # "none" /\ ~obs[i][a].preempted) => obs[i][a].nf1 = 1
        /\ ~(batch[i].pc = "pass1" /\ worker[i][a].pc = "backoff")

\* C3 witness: a worker of pass 1 returned failure after its one attempt
\* ended with a failure that is not of the Permanent category.
C3_FailedOnce ==
    \E i \in Invokers : \E a \in Articles :
        /\ batch[i].pc = "pass1"
        /\ obs[i][a].res1 = "fail"
        /\ ~obs[i][a].preempted
        /\ obs[i][a].nf1 = 1
        /\ obs[i][a].permAt = 0

\* C4: an article whose fetch raises a Permanent-class error is not fetched
\* again in the batch, neither in the same pass nor in pass 2: the attempt
\* that raised it is the last attempt of the article.
C4_PermanentNotFetchedAgain ==
    \A i \in Invokers : \A a \in Articles :
        obs[i][a].permAt # 0 => obs[i][a].nf1 + obs[i][a].nf2 = obs[i][a].permAt

\* C5: in pass 2, for an article whose every attempt fails with the same
\* non-Permanent category c, the number of retries (attempts after the first)
\* exceeds neither the budget of c nor CRAWL_MAX_RETRIES.
C5_RetriesWithinBudget ==
    \A i \in Invokers : \A a \in Articles : \A c \in ErrorCategory \ {PERMANENT} :
        (obs[i][a].res2 = "fail" /\ ~obs[i][a].preempted /\ obs[i][a].cats2 = {c})
            => /\ obs[i][a].nf2 - 1 <= get_max_retries_for_category(c)
               /\ obs[i][a].nf2 - 1 <= CRAWL_MAX_RETRIES

\* C6: once stop_crawling has set the stop flag during a batch, no new fetch
\* attempt is started in that batch.
C6_NoFetchAfterStop == \A i \in Invokers : \A a \in Articles : ~obs[i][a].afterStop

\* C7: an article for which no fetch attempt had been started when the stop
\* flag was set is neither counted in progress.failed nor marked ERROR.
C7_StoppedNotFailed ==
    \A i \in Invokers : \A a \in Articles :
        (obs[i][a].preempted /\ obs[i][a].nf1 + obs[i][a].nf2 = 0)
            => ~obs[i][a].counted /\ ~obs[i][a].marked

\* C8: with a minimum spacing d > 0, every fetch to a domain that starts
\* after an earlier fetch to the same domain has ended starts at least d
\* after that end.
C8_SpacingKept ==
    minDelay > 0 =>
        \A i \in Invokers : \A a \in Articles :
            obs[i][a].gap = -1 \/ obs[i][a].gap >= minDelay

\* C9: with a per-domain cap k > 0, at most k fetches of a batch to the same
\* domain execute simultaneously, in pass 1 and in pass 2.
C9_DomainBound ==
    perDomain > 0 =>
        \A i \in Invokers : \A dom \in Domains :
            Cardinality({a \in Fetching(i) : domain_from_article(a) = dom}) <= perDomain

\* C10: an article whose platform is not allow-listed is never fetched in
\* either pass, is not counted in progress.total (which counts allowed
\* articles only), has no worker whose result is counted in progress.success
\* or progress.failed, and never enters the retry-candidate list.
C10_DisallowedLeftOut ==
    /\ crawl_progress.total <= Cardinality(Allowed)
    /\ \A i \in Invokers : \A a \in Disallowed :
          /\ obs[i][a].nf1 = 0 /\ obs[i][a].nf2 = 0
          /\ obs[i][a].res1 = "none" /\ obs[i][a].res2 = "none"
          /\ a \notin Range(batch[i].articles)
          /\ a \notin Range(batch[i].failed_articles)

\* C10 witness: the database holds an article of a platform that is not
\* allow-listed and a batch is in pass 2, its progress counting every allowed
\* article and its retry-candidate list not empty.
C10_Pass2WithDisallowed ==
    \E i \in Invokers :
        /\ Disallowed # {}
        /\ batch[i].pc = "pass2"
        /\ batch[i].failed_articles # <<>>
        /\ crawl_progress.total = Cardinality(Allowed)

\* the count worker (i, a) holds as the last known one of its article: the
\* count preloaded at the start of the batch, or the latest reading of the
\* database when the article had none then (0: no reading at all)
LastKnown(i, a) == IF batch[i].pre[a] # 0 THEN batch[i].pre[a] ELSE latest_count[a]

\* a fetch of worker (i, a) ends in this step
FetchEnds(i, a) == worker[i][a].pc = "fetch" /\ worker'[i][a].pc # "fetch"

\* what worker (i, a) returned in the pass batch i is in
Result(o, i, a) == IF Pass(i) = 1 THEN o[i][a].res1 ELSE o[i][a].res2

\* C11: when a fetch returns a count equal to the article's last known
\* count, no reading is persisted, the article's status is set to OK and the
\* outcome is success.
C11_UnchangedCount ==
    [][\A i \in Invokers : \A a \in Articles :
          (FetchEnds(i, a) /\ obs'[i][a].got # 0 /\ obs'[i][a].got = LastKnown(i, a))
              => /\ readings' = readings
                 /\ status'[a] = [st |-> "OK", err |-> "none", cat |-> NoCategory]
                 /\ Result(obs', i, a) = "ok"]_vars

\* C11 witness: a fetch has returned the count the article already had; the
\* article has no new reading and its worker returned success.
C11_SameCountFetched ==
    \E i \in Invokers : \E a \in Articles :
        /\ obs[i][a].got # 0
        /\ obs[i][a].got = LastKnown(i, a)
        /\ readings[a] = 0
        /\ status[a].st = "OK"

Finalizes(i) == batch[i].pc \in {"pass1", "pass2"} /\ batch'[i].pc = "idle"

\* the articles whose final outcome in batch i is success, given what was
\* observed of its workers
Succeeded(o, i) == {a \in Articles : o[i][a].res1 = "ok" \/ o[i][a].res2 = "ok"}

\* C13: when a batch runs to completion without a stop request, the final
\* progress has total = number of allowed articles, success = number of
\* articles whose final outcome is success, and success + failed = total.
C13_ExactProgress ==
    [][\A i \in Invokers :
          (Finalizes(i) /\ i \notin stopped)
              => /\ crawl_progress'.total = Cardinality(Allowed)
                 /\ crawl_progress'.success = Cardinality(Succeeded(obs, i))
                 /\ crawl_progress'.success + crawl_progress'.failed
                        = crawl_progress'.total]_vars

\* C14: after a batch that completes without a stop request, every allowed
\* article has had its status written during that batch: OK if its final
\* outcome is success, ERROR otherwise.
C14_StatusWritten ==
    [][\A i \in Invokers :
          (Finalizes(i) /\ i \notin stopped)
              => \A a \in Allowed :
                    obs[i][a].wrote = IF a \in Succeeded(obs, i) THEN "OK" ELSE "ERROR"]_vars

\* C14 witness: a batch that met no stop request is about to finalize with
\* one article written OK and another one written ERROR.
C14_BothWritten ==
    \E i \in Invokers : \E a, b \in Allowed :
        /\ batch[i].pc = "pass2"
        /\ i \notin stopped
        /\ \A c \in Range(batch[i].failed_articles) : worker[i][c].pc = "p2_done"
        /\ obs[i][a].wrote = "OK" /\ status[a].st = "OK"
        /\ obs[i][b].wrote = "ERROR" /\ status[b].st = "ERROR"

\* C15: during pass 1 no article is marked ERROR: a failure of pass 1 leaves
\* the article's stored status and error message unchanged; a step that
\* writes ERROR is a step of a worker of pass 2.
C15_NoErrorInPass1 ==
    [][\A a \in Articles :
          /\ \A i \in Invokers :
                (batch[i].pc = "pass1" /\ obs[i][a].res1 = "none"
                    /\ obs'[i][a].res1 = "fail") => status'[a] = status[a]
          /\ (status'[a] # status[a] /\ status'[a].st = "ERROR")
                => \E i \in Invokers : batch[i].pc = "pass2" /\ worker'[i][a] # worker[i][a]]_vars

\* C15 witness: a worker of pass 1 returned failure after its fetch raised a
\* Permanent error and the article's status is still the initial one.
C15_FailedUnmarked ==
    \E i \in Invokers : \E a \in Articles :
        /\ batch[i].pc = "pass1"
        /\ obs[i][a].res1 = "fail"
        /\ obs[i][a].cat1 = PERMANENT
        /\ status[a] = NoStatus

\* C16: when an article exhausts its retries in pass 2, the status stored
\* for it when its worker returns is ERROR with the message of the last
\* error of its last attempt, truncated to at most 100 characters (the
\* message of a missing count is shorter than that).
C16_LastErrorStored ==
    [][\A i \in Invokers : \A a \in Articles :
          (/\ Pass(i) = 2 /\ FetchEnds(i, a)
           /\ obs'[i][a].res2 = "fail"
           /\ obs'[i][a].cat2 # PERMANENT)
              => /\ status'[a].st = "ERROR"
                 /\ status'[a].err \in {"str_e_100", "no_count"}]_vars

\* a batch that has initialised its progress goes back to rest
Finishes(i) == batch[i].pc \in {"pass1", "pass2", "raised"} /\ batch'[i].pc = "idle"

\* C17: every batch that starts eventually finalizes, given that fetches and
\* sleeps terminate; the step that ends a batch, normally, stopped or through
\* the handler of crawl_all_sync, leaves is_running false and end_time set;
\* is_running is false whenever no invocation of crawl_all_sync is under way
C17_BatchFinalizes ==
    /\ \A i \in Invokers : (batch[i].pc \in {"started", "pass1"}) ~> (batch[i].pc = "idle")
    /\ [][\A i \in Invokers :
            Finishes(i) => ~crawl_progress'.is_running /\ crawl_progress'.end_time]_vars
    /\ []((\A i \in Invokers : batch[i].pc = "idle") => ~crawl_progress.is_running)

\* an invocation is over after a stop request reached its batch, another
\* after crawl_all_articles raised
C17_StoppedAndOver ==
    /\ \A i \in Invokers : batch[i].pc = "idle"
    /\ \E a \in Articles : obs["scheduler"][a].preempted
    /\ crawl_progress.end_time /\ ~crawl_progress.is_running
\* an exception escapes the crawl of worker (i, a) in this step
Raises(i, a) == ~obs[i][a].raised /\ obs'[i][a].raised

\* C18: an exception raised inside the worker of one article, in either
\* pass, becomes a failed outcome of that article only: the batch goes on in
\* the same pass, the worker returns False (in pass 1 the article joins
\* failed_articles, in pass 2 its status is ERROR), no other worker, no other
\* article's status and no other observation is touched, every article of a
\* batch that was not stopped has an outcome of its own when the batch
\* finalizes, and the batch finalizes
C18_ExceptionContained ==
    /\ [][\A i \in Invokers, a \in Articles : Raises(i, a) =>
            /\ batch'[i].pc = batch[i].pc
            /\ Result(obs', i, a) = "fail"
            /\ Pass(i) = 1 => a \in Range(batch'[i].failed_articles)
            /\ Pass(i) = 2 => status'[a].st = "ERROR"
            /\ \A b \in Articles \ {a} :
                  /\ worker'[i][b] = worker[i][b]
                  /\ obs'[i][b] = obs[i][b]
                  /\ status'[b] = status[b]]_vars
    /\ [][\A i \in Invokers : (Finalizes(i) /\ i \notin stopped) =>
            \A b \in Range(batch[i].articles) : obs[i][b].res1 # "none"]_vars
    /\ \A i \in Invokers :
          (Running(i) /\ \E a \in Articles : obs[i][a].raised) ~> (batch[i].pc = "idle")

\* a batch is over in which the worker of one article raised in both passes
\* and the other article was fetched
C18_SiblingSucceeded ==
    /\ batch["scheduler"].pc = "idle"
    /\ crawl_progress.end_time /\ ~crawl_progress.is_running
    /\ \E a, b \in Articles :
          /\ obs["scheduler"][a].raised
          /\ obs["scheduler"][a].res2 = "fail"
          /\ status[a].st = "ERROR"
          /\ ~obs["scheduler"][b].raised
          /\ obs["scheduler"][b].res1 = "ok"
          /\ status[b].st = "OK"
\* the classes of the keywords spelt out by the fragments of the message
FragmentClasses == {FragmentClass[parts[k]] : k \in 1..Len(parts)}

\* the message, lowered, has a keyword of the list
HasKeyword(keywords) == AnyIn(Lower(Message(parts)), keywords)

Classified == classified # NoClassified

\* C19: an error whose message contains a Permanent keyword, in any letter
\* case and whatever else it contains, is classified PERMANENT, and the retry
\* budget of PERMANENT is 0
C19_PermanentWins ==
    /\ get_max_retries_for_category(PERMANENT) = 0
    /\ (Classified /\ (PERMANENT \in FragmentClasses \/ HasKeyword(permanent_keywords)))
          => classified.category = PERMANENT /\ classified.max_retries = 0

\* a message with a Permanent keyword in capitals next to an Ssl and a
\* Network keyword has been classified
C19_MixedMessage ==
    /\ Classified
    /\ parts = <<4, 3, 6>>
    /\ classified.category = PERMANENT

\* the classes in the order of the code
ClassOrder == <<PERMANENT, SSL, NETWORK, PARSE>>
ClassKeywords == <<permanent_keywords, ssl_keywords, network_keywords, parse_keywords>>

\* C20: the category is the first class, in the order Permanent, Ssl,
\* Network, Parse, one of whose keywords the message contains, and UNKNOWN
\* when it contains none; a message with an Ssl and a Network keyword and no
\* Permanent one is SSL, a message with a Network and a Parse keyword and no
\* Permanent or Ssl one is NETWORK, a message of fragments that spell no
\* keyword and make up no Permanent one is UNKNOWN
C20_FirstClassWins ==
    Classified =>
        LET matching == {k \in 1..4 : HasKeyword(ClassKeywords[k])}
        IN /\ matching = {} => classified.category = UNKNOWN
           /\ \A k \in matching :
                 (\A j \in matching : k <= j) => classified.category = ClassOrder[k]
           /\ ({SSL, NETWORK} \subseteq FragmentClasses /\ ~HasKeyword(permanent_keywords))
                 => classified.category = SSL
           /\ ({NETWORK, PARSE} \subseteq FragmentClasses
                 /\ ~HasKeyword(permanent_keywords) /\ SSL \notin FragmentClasses)
                 => classified.category = NETWORK
           /\ (FragmentClasses = {NoCategory} /\ ~HasKeyword(permanent_keywords))
                 => classified.category = UNKNOWN

\* a message with a Network keyword before an Ssl keyword has been
\* classified SSL, the class checked first
C20_NetworkThenSsl ==
    /\ Classified
    /\ parts = <<6, 13, 5>>
    /\ classified.category = SSL
\* C21: with jitter disabled and a backoff factor >= 1, the delay of attempt
\* k for Network/Unknown is CRAWL_RETRY_DELAY * CRAWL_RETRY_BACKOFF^(k-1)
\* held under CRAWL_RETRY_MAX_DELAY: it never exceeds CRAWL_RETRY_MAX_DELAY
\* and it is non-decreasing in k
C21_BackoffMonotone ==
    (~delay_cfg.jitter /\ RLeq(Rat(1, 1), delay_cfg.backoff)
       /\ delay_cfg.category \in {NETWORK, UNKNOWN})
    => \A k \in 1..Len(delays) :
          /\ RLeq(delays[k], delay_cfg.max_delay)
          /\ k > 1 => RLeq(delays[k - 1], delays[k])
          /\ \/ REq(delays[k], delay_cfg.max_delay)
             \/ REq(delays[k], RMul(delay_cfg.delay, RPow(delay_cfg.backoff, k - 1)))

\* the delays of a Network error grew from attempt to attempt up to the cap
C21_GrewToCap ==
    /\ ~delay_cfg.jitter /\ delay_cfg.category = NETWORK
    /\ delay_cfg.backoff = Rat(3, 2)
    /\ Len(delays) = MaxAttempt
    /\ ~RLeq(delays[2], delays[1])
    /\ ~RLeq(delay_cfg.max_delay, delays[2])
    /\ REq(delays[MaxAttempt], delay_cfg.max_delay)
\* gather of pass 1 has returned in this step
Pass1Ends(i) == batch[i].pc = "pass1" /\ batch'[i].pc \in {"pass2", "idle", "raised"}

FailedInPass1(o, i) == {a \in Articles : o[i][a].res1 = "fail"}

C23_WaitBeforeEveryFetch ==
    \A i \in Invokers : \A a \in Articles :
        worker[i][a].pc = "fetch" =>
            /\ minDelay > 0 => obs[i][a].waited
            /\ perDomain > 0 => worker[i][a].dsem # 0
\* C24: whenever no task is between obtaining and releasing a browser
\* instance, BrowserPool._in_use is empty
C24_AllReleased ==
    (\A w \in Tasks : task[w].pc \in {"start", "done"}) => browser_pool.in_use = {}
\* C25: a fetch that fails at the transport level, by a timeout or a
\* connection error of the browser call, is given the category NETWORK by
\* _crawl_with_retry, hence the retry budget and the backoff of NETWORK
C25_TransportIsNetwork ==
    \A i \in Invokers : \A a \in Articles : obs[i][a].tcat \in {NoCategory, NETWORK}

\* C26: update_article_title raising never changes the outcome of the crawl:
\* an attempt whose fetch returned a count ends as a success, and the title
\* update causes no retry and no failure
C26_TitleFailureHarmless ==
    \A i \in Invokers : \A a \in Articles : obs[i][a].tres \in {"none", "ok"}

\* C27: a stop requested while a batch is running stays in force until that
\* batch finalizes: no step taken while a batch is in one of its passes,
\* other than the one that finalizes it, clears a stop flag that is set,
\* whatever other invocations of crawl_all_sync() do
C27_StopStaysInForce ==
    [][\A i \in Invokers :
          (Running(i) /\ stop_signal /\ ~Finalizes(i)) => stop_signal']_vars

\* C28: given that every fetch and every sleep terminates, nothing waits
\* forever: a worker that waits for its domain semaphore or for the global
\* semaphore gets it, each pass of a batch runs to its end, and every retry
\* task gets retry_semaphore and the lock of the pool and ends
C28_NoDeadlock ==
    /\ \A i \in Invokers :
          /\ (batch[i].pc = "pass1") ~> (batch[i].pc # "pass1")
          /\ (batch[i].pc = "pass2") ~> (batch[i].pc = "idle")
    /\ <>(\A w \in Tasks : task[w].pc = "done")

\* in pass 1 a worker holds a permit of its domain semaphore and waits for
\* the global semaphore, which a worker of the same domain holds
C28_HoldsDomainWaitsGlobal ==
    \E i \in Invokers : \E a, b \in Articles :
        /\ batch[i].pc = "pass1"
        /\ worker[i][a].pc = "p1_wait_sem"
        /\ worker[i][a].dsem # 0
        /\ worker[i][b].pc = "fetch"
        /\ worker[i][b].dsem = worker[i][a].dsem
        /\ batch[i].semaphore = 0

\* the workers of pass 1 of batch i that have completed
CompletedInPass1(i) == {a \in Range(batch[i].articles) : worker[i][a].pc = "p1_done"}

\* C29: during pass 1 of a batch that runs alone and is not stopped,
\* progress.current is the number of articles whose worker has completed,
\* whatever the order in which the workers complete
C29_CurrentCountsCompleted ==
    \A i \in Invokers :
        (/\ batch[i].pc = "pass1"
         /\ \A j \in Invokers \ {i} : ~InBatch(j)
         /\ ~stop_signal /\ i \notin stopped)
        => crawl_progress.current = Cardinality(CompletedInPass1(i))

\* C30: in every state of a batch that runs on its own, which is what
\* get_crawl_progress() returns a copy of, success and failed are not
\* negative and success + failed is at most total
C30_CountersWithinTotal ==
    /\ crawl_progress.success >= 0
    /\ crawl_progress.failed >= 0
    /\ crawl_progress.success + crawl_progress.failed <= crawl_progress.total

\* pass 2 is under way with one article a success of pass 1 and another
\* retried without success
C30_RetriedInPass2 ==
    /\ \E i \in Invokers : batch[i].pc = "pass2"
    /\ crawl_progress.total = 2
    /\ crawl_progress.success = 1 /\ crawl_progress.failed = 1
    /\ crawl_progress.retried = 1

PositionIn(l, a) == CHOOSE k \in 1..Len(l) : l[k] = a

\* a is the RankIn(l, a)-th article of its domain in the list l
RankIn(l, a) ==
    Cardinality({k \in 1..PositionIn(l, a) :
                    domain_from_article(l[k]) = domain_from_article(a)})

\* C32: _interleave_articles_by_site returns a permutation of its argument
\* in which the articles of a domain keep their relative order and in which
\* the j-th article of a domain precedes the k-th article of any domain
\* whenever j < k
C32_RoundRobin ==
    interleaving.returned =>
        LET l == interleaving.articles
            r == interleaving.interleaved
        IN /\ Len(r) = Len(l)
           /\ Range(r) = Range(l)
           /\ \A a, b \in Range(l) :
                 /\ (domain_from_article(a) = domain_from_article(b)
                     /\ PositionIn(l, a) < PositionIn(l, b))
                        => PositionIn(r, a) < PositionIn(r, b)
                 /\ RankIn(l, a) < RankIn(l, b) => PositionIn(r, a) < PositionIn(r, b)

\* two articles of one domain were listed before an article of another one,
\* which the result puts between them
C32_Interleaved ==
    /\ interleaving.returned
    /\ interleaving.articles = <<1, 2, 3>>
    /\ interleaving.interleaved = <<1, 3, 2>>

\* C33: the stop flag is cleared at the start of every batch, so that a stop
\* requested before the batch cleared the flag, while no batch ran or during
\* an earlier batch, pre-empts none of its workers: a worker returns at a
\* check of the stop flag only after a stop requested since its own batch
\* started
C33_StopClearedAtStart ==
    /\ [][\A i \in Invokers :
            (batch[i].pc = "started" /\ batch'[i].pc # "started") => ~stop_signal']_vars
    /\ [][\A i \in Invokers : \A a \in Articles :
            (~obs[i][a].preempted /\ obs'[i][a].preempted) => i \in stopped]_vars

\* a stop request pre-empted a worker of a batch that is over; an invocation
\* made since then fetches, with the flag cleared
C33_FetchesAfterEarlierStop ==
    \E i, j \in Invokers : \E a, b \in Articles :
        /\ i # j
        /\ batch[j].pc = "idle" /\ obs[j][b].preempted
        /\ batch[i].pc = "pass1" /\ worker[i][a].pc = "fetch"
        /\ i \notin stopped /\ ~stop_signal

\* C34: once cancel_task has set the status of a task to cancelled, the
\* status never changes again, also when the task was running and its
\* function returns or raises afterwards
C34_CancelledIsFinal ==
    [][\A t \in TaskIds :
          task_manager.tasks[t] = "cancelled" => task_manager'.tasks[t] = "cancelled"]_vars

FirstWorkerToStart(i) ==
    /\ batch[i].pc = "pass1"
    /\ batch[i].articles # <<>>
    /\ \A a \in Range(batch[i].articles) : worker[i][a].pc = "p1_start"

\* C36: when the first worker of a batch starts, the table of the domain
\* semaphores and the table of the last request times are empty
C36_FreshDomainState ==
    \A i \in Invokers :
        FirstWorkerToStart(i)
            => /\ \A d \in Domains : domain_semaphores[d] = 0
               /\ \A d \in Domains : domain_last_request_time[d] = -1

\* the order of the categories as the retry pass is described: Network and
\* Unknown first, then Ssl, then Parse
DescribedRank(c) ==
    IF c = NETWORK \/ c = UNKNOWN THEN 1
    ELSE IF c = SSL THEN 2
    ELSE IF c = PARSE THEN 3
    ELSE 0

\* C37: pass 2 takes the retry candidates in the order of the category of
\* their failure in pass 1: Network and Unknown before Ssl, Ssl before Parse
C37_RetryOrderByCategory ==
    \A i \in Invokers :
        batch[i].pc = "pass2"
            => \A k, l \in 1..Len(batch[i].failed_articles) :
                  LET ck == obs[i][batch[i].failed_articles[k]].cat1
                      cl == obs[i][batch[i].failed_articles[l]].cat1
                  IN (k < l /\ DescribedRank(ck) > 0 /\ DescribedRank(cl) > 0)
                        => DescribedRank(ck) <= DescribedRank(cl)

\* C38: in the browser pool the idle instances and the instances in use are
\* together at most _max_size, no instance is both idle and in use, and a
\* release() of an instance that is not in use changes neither
C38_PoolAccounting ==
    /\ [](/\ Len(browser_pool.pool) + Cardinality(browser_pool.in_use) <= pool_cfg.max_size
          /\ \A k \in 1..Len(browser_pool.pool) : browser_pool.pool[k] \notin browser_pool.in_use)
    /\ [][/\ \A c \in 1..MaxInstances, valid \in BOOLEAN :
                (release(c, valid) /\ c \notin browser_pool.in_use)
                    => /\ browser_pool'.pool = browser_pool.pool
                       /\ browser_pool'.in_use = browser_pool.in_use
          /\ \A c \in Range(browser_pool'.pool) \ Range(browser_pool.pool) :
                c \in browser_pool.in_use /\ c \notin browser_pool'.in_use]_vars

\* the pool is at its size with an idle instance and one in use, and
\* release() has been called with an instance that was not in use
C38_FullAfterStrayRelease ==
    /\ browser_pool.stray
    /\ browser_pool.pool # <<>>
    /\ browser_pool.in_use # {}
    /\ Len(browser_pool.pool) + Cardinality(browser_pool.in_use) = pool_cfg.max_size
====
